---- MODULE Spec2Model ----
(***************************************************************************)
(* LinkUp backend (Express + Firebase Admin): the request gate, the        *)
(* profile routes, manual registration and login, the OAuth callbacks and  *)
(* the meeting routes, modelled as a state machine over the two external   *)
(* stores the handlers talk to: the Identity Oracle (Firebase Auth) and    *)
(* the Profile Store (Firestore collections "users" and "meetings").       *)
(*                                                                         *)
(* Sources hold several revisions of some route modules.  The handlers     *)
(* modelled are:                                                           *)
(*   src/src/middleware/auth.ts   verifyIdToken                            *)
(*   src/unnamed/part_001         users routes (trimming upsert revision)  *)
(*   src/src/routes/users.ts      users routes (userDAO revision), 1..162  *)
(*   src/src/routes/auth.ts       register / login, lines 127..339         *)
(*   src/unnamed/part_003         OAuth callbacks with mergeUserData       *)
(*   src/src/routes/oauth.ts      OAuth callbacks with set(..., merge)     *)
(*   src/src/routes/meetings.ts   meeting routes, lines 1..262             *)
(* A request is one atomic action: the gate followed by the handler.  Two  *)
(* specifications refine this: SpecReaders splits GET /api/meetings/:id at *)
(* its store calls, SpecUpstream lets the first oracle call of a handler   *)
(* fail.  SpecLimiter puts the login handler behind the rate limiter.      *)
(***************************************************************************)
EXTENDS Integers, Sequences, FiniteSets, TLC

(***************************************************************************)
(* JavaScript values.  A value is a tagged record so that typeof, null and *)
(* undefined can be told apart as the handlers do.  A string is a sequence *)
(* of symbols: a symbol is a blank " " or a non-blank token (a word or a   *)
(* character), which is all that trim, split and the regular expressions   *)
(* of the handlers look at.                                                *)
(***************************************************************************)
Undefined == [t |-> "undefined", s |-> <<>>, n |-> 0]

Null == [t |-> "null", s |-> <<>>, n |-> 0]

Str(x) == [t |-> "string", s |-> x, n |-> 0]

Num(k) == [t |-> "number", s |-> <<>>, n |-> k]

Bool(b) == [t |-> "boolean", s |-> <<>>, n |-> IF b THEN 1 ELSE 0]

\* JavaScript truthiness of a value (!v is ~Truthy(v)).
Truthy(v) ==
  CASE v.t = "undefined" -> FALSE
    [] v.t = "null" -> FALSE
    [] v.t = "string" -> v.s # <<>>
    [] v.t = "number" -> v.n # 0
    [] v.t = "boolean" -> v.n = 1
    [] OTHER -> TRUE

\* a || b
Or(a, b) == IF Truthy(a) THEN a ELSE b

\* a ?? b
Coalesce(a, b) == IF a.t \in {"undefined", "null"} THEN b ELSE a

IsWs(c) == c = " "

RECURSIVE TrimLeft(_)
TrimLeft(x) ==
  IF x # <<>> /\ IsWs(Head(x)) THEN TrimLeft(Tail(x)) ELSE x

RECURSIVE TrimRight(_)
TrimRight(x) ==
  IF x # <<>> /\ IsWs(x[Len(x)]) THEN TrimRight(SubSeq(x, 1, Len(x) - 1)) ELSE x

\* String.prototype.trim on a symbol sequence
Trim(x) == TrimRight(TrimLeft(x))

\* x.split(' '): split at every single blank (empty pieces are kept)
RECURSIVE SplitSpace(_)
SplitSpace(x) ==
  IF \A i \in 1..Len(x) : ~IsWs(x[i])
  THEN <<x>>
  ELSE LET i == CHOOSE j \in 1..Len(x) :
                  IsWs(x[j]) /\ \A k \in 1..(j - 1) : ~IsWs(x[k])
       IN  <<SubSeq(x, 1, i - 1)>> \o SplitSpace(SubSeq(x, i + 1, Len(x)))

\* x.split(/\s+/): split at every run of blanks
RECURSIVE SplitWs(_)
SplitWs(x) ==
  IF \A i \in 1..Len(x) : ~IsWs(x[i])
  THEN <<x>>
  ELSE LET i == CHOOSE j \in 1..Len(x) :
                  IsWs(x[j]) /\ \A k \in 1..(j - 1) : ~IsWs(x[k])
       IN  <<SubSeq(x, 1, i - 1)>> \o SplitWs(TrimLeft(SubSeq(x, i, Len(x))))

\* parts.join(' ')
RECURSIVE JoinSpace(_)
JoinSpace(parts) ==
  IF parts = <<>> THEN <<>>
  ELSE IF Len(parts) = 1 THEN parts[1]
  ELSE parts[1] \o <<" ">> \o JoinSpace(Tail(parts))

\* parts.slice(1)
Slice1(parts) == IF parts = <<>> THEN <<>> ELSE Tail(parts)

\* parts[i] ?? null, as a value (i is 0-based as in the source)
PartOrNull(parts, i) == IF i + 1 <= Len(parts) THEN Str(parts[i + 1]) ELSE Null

Arr(x) == [t |-> "array", s |-> x, n |-> 0]

(***************************************************************************)
(* Bounds and the finite universe of identifiers.                          *)
(***************************************************************************)
\* accounts the Identity Oracle creates in one run (uids are never reused)
MaxAccounts == 2

\* meeting documents the Profile Store creates in one run
MaxMeetings == 1

\* the uid the oracle assigns to its i-th account
UidNames == <<"u1", "u2", "u3", "u4">>

\* every subject id a verified token can carry
AllUids == {UidNames[i] : i \in 1..Len(UidNames)}

MeetingNames == <<"m1", "m2", "m3">>

AllMeetings == {MeetingNames[i] : i \in 1..Len(MeetingNames)}

(***************************************************************************)
(* Identity Oracle (firebase-admin auth), as the handlers use it.          *)
(***************************************************************************)
NoAccount == [exists |-> FALSE, email |-> <<>>, password |-> <<>>, emailVerified |-> FALSE]

\* ID tokens the oracle verifies, and the subject each carries
TokenSubject == [t \in {"t1", "t2", "t3"} |->
                   CASE t = "t1" -> "u1" [] t = "t2" -> "u2" [] OTHER -> "u3"]

\* ID tokens the oracle refuses, and the error code it throws
TokenFailure == [t \in {"tExpired", "tMalformed", "tRevoked"} |->
                   CASE t = "tExpired" -> "auth/id-token-expired"
                     [] t = "tRevoked" -> "auth/id-token-revoked"
                     [] OTHER -> "auth/argument-error"]

\* auth.verifyIdToken(token): the decoded uid, or the thrown error code
OracleVerifyIdToken(token) ==
  IF Len(token) = 1 /\ token[1] \in DOMAIN TokenSubject
  THEN [ok |-> TRUE, uid |-> TokenSubject[token[1]], code |-> ""]
  ELSE IF Len(token) = 1 /\ token[1] \in DOMAIN TokenFailure
  THEN [ok |-> FALSE, uid |-> "", code |-> TokenFailure[token[1]]]
  ELSE [ok |-> FALSE, uid |-> "", code |-> "auth/argument-error"]

\* auth.getUserByEmail(email): the uid, or "" for auth/user-not-found
GetUserByEmail(au, email) ==
  IF \E u \in AllUids : au[u].exists /\ au[u].email = email
  THEN CHOOSE u \in AllUids : au[u].exists /\ au[u].email = email
  ELSE ""

\* auth.getUser(uid): the uid, or "" for auth/user-not-found
GetUser(au, uid) == IF uid \in AllUids /\ au[uid].exists THEN uid ELSE ""

\* auth.createUser({email, password, emailVerified}); n is the oracle's counter
CreateUser(au, n, email, password, verified) ==
  IF GetUserByEmail(au, email) # ""
  THEN [code |-> "auth/email-already-exists", uid |-> "", au |-> au]
  ELSE [code |-> "", uid |-> UidNames[n],
        au |-> [au EXCEPT ![UidNames[n]] =
                  [exists |-> TRUE, email |-> email, password |-> password,
                   emailVerified |-> verified]]]

\* auth.updateUser(uid, {password})
UpdateUserPassword(au, uid, password) ==
  IF ~au[uid].exists
  THEN [code |-> "auth/user-not-found", au |-> au]
  ELSE [code |-> "", au |-> [au EXCEPT ![uid].password = password]]

\* auth.updateUser(uid, {email, emailVerified: false})
UpdateUserEmail(au, uid, email) ==
  IF ~au[uid].exists
  THEN [code |-> "auth/user-not-found", au |-> au]
  ELSE IF GetUserByEmail(au, email) \notin {"", uid}
  THEN [code |-> "auth/email-already-exists", au |-> au]
  ELSE [code |-> "", au |-> [au EXCEPT ![uid].email = email,
                                       ![uid].emailVerified = FALSE]]

\* auth.deleteUser(uid)
DeleteUser(au, uid) ==
  IF ~au[uid].exists
  THEN [code |-> "auth/user-not-found", au |-> au]
  ELSE [code |-> "", au |-> [au EXCEPT ![uid] = NoAccount]]

(***************************************************************************)
(* Profile Store (Firestore).  A document is a map from field names to     *)
(* values; Undefined stands for an absent field (the client is configured  *)
(* with ignoreUndefinedProperties).                                        *)
(***************************************************************************)
UserFields == {"uid", "firstName", "lastName", "age", "email", "displayName",
               "photoURL", "providers", "emailVerified", "createdAt",
               "updatedAt", "lastLogin"}

EmptyData == [f \in UserFields |-> Undefined]

NoDoc == [exists |-> FALSE, data |-> EmptyData]

\* new Date().toISOString(): the model has one instant
Now == Str(<<"now">>)

\* the fields of `data` laid over the fields of `old`
Overlay(old, data) ==
  [f \in DOMAIN old |-> IF data[f] # Undefined THEN data[f] ELSE old[f]]

\* docRef.set(data)
DocSet(coll, id, data) == [coll EXCEPT ![id] = [exists |-> TRUE, data |-> data]]

\* docRef.set(data, {merge: true})
DocSetMerge(coll, id, data) ==
  [coll EXCEPT ![id] = [exists |-> TRUE, data |-> Overlay(coll[id].data, data)]]

\* docRef.update(data): NOT_FOUND when the document does not exist
DocUpdate(coll, id, data) ==
  IF ~coll[id].exists
  THEN [code |-> "not-found", coll |-> coll]
  ELSE [code |-> "", coll |-> DocSetMerge(coll, id, data)]

\* docRef.delete()
DocDelete(coll, id, none) == [coll EXCEPT ![id] = none]

(***************************************************************************)
(* State.                                                                  *)
(***************************************************************************)
VARIABLES
  authUsers,    \* Identity Oracle: uid -> account
  nextUid,      \* Identity Oracle: index of the next uid it assigns
  users,        \* Profile Store, collection "users": uid -> document
  meetings,     \* Profile Store, collection "meetings": id -> document
  nextMeeting,  \* Profile Store: index of the next meeting id it assigns
  resp,         \* the last request served and the response it got
  limiter,      \* the login rate limiter: mode, clock, window and hit count
  reads         \* GET /api/meetings/:id requests between their two store calls

vars == <<authUsers, nextUid, users, meetings, nextMeeting, resp, limiter, reads>>

\* A request and its response.  header/uid/passed describe the gate; target
\* is the path parameter or the email the request resolves; body is the
\* request body as the handler reads it; user is the `user` of the response
\* body and minted the subject a session credential was created for.
Response(op, status, error) ==
  [op |-> op, status |-> status, error |-> error, header |-> Undefined,
   passed |-> FALSE, uid |-> "", target |-> "", body |-> <<>>,
   user |-> Undefined, minted |-> ""]

NoResponse == Response("none", 0, "")

(***************************************************************************)
(* Request gate: src/src/middleware/auth.ts verifyIdToken.                 *)
(***************************************************************************)
Bearer == <<"B", "e", "a", "r", "e", "r", " ">>

\* String.prototype.startsWith
StartsWith(x, prefix) ==
  Len(x) >= Len(prefix) /\ SubSeq(x, 1, Len(prefix)) = prefix

\* String.prototype.substring(k)
Substring(x, k) == IF k >= Len(x) THEN <<>> ELSE SubSeq(x, k + 1, Len(x))

\* verifyIdToken without the startsWith('Bearer ') test
verifyIdTokenAnyScheme(authHeader) ==
  IF ~Truthy(authHeader)
  THEN [next |-> FALSE, uid |-> "", status |-> 401,
        error |-> "Authorization header is required"]
  ELSE LET token == Substring(authHeader.s, 7) IN
    IF token = <<>>
    THEN [next |-> FALSE, uid |-> "", status |-> 401,
          error |-> "Token is required"]
    ELSE LET decodedToken == OracleVerifyIdToken(token) IN
      IF decodedToken.ok
      THEN [next |-> TRUE, uid |-> decodedToken.uid, status |-> 0, error |-> ""]
      ELSE [next |-> FALSE, uid |-> "", status |-> 401,
            error |-> "Invalid or expired token"]

\* verifyIdToken answering with the oracle's error code in the catch block
verifyIdTokenWithCode(authHeader) ==
  IF ~Truthy(authHeader)
  THEN [next |-> FALSE, uid |-> "", status |-> 401,
        error |-> "Authorization header is required"]
  ELSE IF ~StartsWith(authHeader.s, Bearer)
  THEN [next |-> FALSE, uid |-> "", status |-> 401,
        error |-> "Authorization header must start with Bearer"]
  ELSE LET token == Substring(authHeader.s, 7) IN
    IF token = <<>>
    THEN [next |-> FALSE, uid |-> "", status |-> 401,
          error |-> "Token is required"]
    ELSE LET decodedToken == OracleVerifyIdToken(token) IN
      IF decodedToken.ok
      THEN [next |-> TRUE, uid |-> decodedToken.uid, status |-> 0, error |-> ""]
      ELSE [next |-> FALSE, uid |-> "", status |-> 401, error |-> decodedToken.code]

\* The gate's verdict on req.headers.authorization: next() with req.uid set,
\* or a 401 response.
verifyIdToken(authHeader) ==
  IF ~Truthy(authHeader)
  THEN [next |-> FALSE, uid |-> "", status |-> 401,
        error |-> "Authorization header is required"]
  ELSE IF ~StartsWith(authHeader.s, Bearer)
  THEN [next |-> FALSE, uid |-> "", status |-> 401,
        error |-> "Authorization header must start with Bearer"]
  ELSE LET token == Substring(authHeader.s, 7) IN
    IF token = <<>>
    THEN [next |-> FALSE, uid |-> "", status |-> 401,
          error |-> "Token is required"]
    ELSE LET decodedToken == OracleVerifyIdToken(token) IN
      IF decodedToken.ok
      THEN [next |-> TRUE, uid |-> decodedToken.uid, status |-> 0, error |-> ""]
      ELSE [next |-> FALSE, uid |-> "", status |-> 401,
            error |-> "Invalid or expired token"]

\* The response of a gated route whose gate rejected the request.
Rejected(op, authHeader, target, body) ==
  LET g == verifyIdToken(authHeader) IN
  [Response(op, g.status, g.error) EXCEPT
     !.header = authHeader, !.target = target, !.body = body]

\* The response of a gated route whose handler ran for subject `uid`.
Handled(op, authHeader, uid, target, body, status, error) ==
  [Response(op, status, error) EXCEPT
     !.header = authHeader, !.passed = TRUE, !.uid = uid, !.target = target,
     !.body = body]

(***************************************************************************)
(* Profile routes, src/unnamed/part_001.                                   *)
(***************************************************************************)
allowedFields == <<"firstName", "lastName", "age", "email">>

\* uid !== requestUid fails: the profile addressed is the requester's own
OwnProfileAlways(uid, requestUid) == TRUE

OwnProfile(uid, requestUid) == uid = requestUid

\* a filter that copies every field of the body, allow-listed or not
FilterTrimmedAnyField(body, i) ==
  [f \in UserFields |-> IF f \in DOMAIN body THEN body[f] ELSE Undefined]

\* part_001:83-97, the loop that filters the body into updateData
RECURSIVE FilterTrimmed(_, _)
FilterTrimmed(body, i) ==
  IF i > Len(allowedFields) THEN EmptyData
  ELSE LET field == allowedFields[i]
           value == IF field \in DOMAIN body THEN body[field] ELSE Undefined
           rest == FilterTrimmed(body, i + 1)
       IN  IF value = Undefined THEN rest
           ELSE IF value.t = "string"
           THEN IF Trim(value.s) # <<>>
                THEN [rest EXCEPT ![field] = Str(Trim(value.s))]
                ELSE rest
           ELSE [rest EXCEPT ![field] = value]

\* Object.keys(updateData)
Keys(data) == {f \in DOMAIN data : data[f] # Undefined}

\* GET /api/users/:uid
UsersGetOutcome(au, us, authHeader, uid) ==
  LET g == verifyIdToken(authHeader) IN
  IF ~g.next
  THEN [au |-> au, us |-> us, resp |-> Rejected("users.get", authHeader, uid, <<>>)]
  ELSE IF ~OwnProfile(uid, g.uid)
  THEN [au |-> au, us |-> us,
        resp |-> Handled("users.get", authHeader, g.uid, uid, <<>>, 403, "Access denied")]
  ELSE IF ~us[uid].exists
  THEN [au |-> au, us |-> us,
        resp |-> Handled("users.get", authHeader, g.uid, uid, <<>>, 404, "User not found")]
  ELSE [au |-> au, us |-> us,
        resp |-> [Handled("users.get", authHeader, g.uid, uid, <<>>, 200, "")
                    EXCEPT !.user = us[uid].data]]

\* PUT /api/users/:uid (upsert)
UsersPutOutcome(au, us, authHeader, uid, body) ==
  LET g == verifyIdToken(authHeader) IN
  IF ~g.next
  THEN [au |-> au, us |-> us, resp |-> Rejected("users.put", authHeader, uid, body)]
  ELSE IF ~OwnProfile(uid, g.uid)
  THEN [au |-> au, us |-> us,
        resp |-> Handled("users.put", authHeader, g.uid, uid, body, 403, "Access denied")]
  ELSE LET filtered == FilterTrimmed(body, 1) IN
    IF Keys(filtered) = {}
    THEN [au |-> au, us |-> us,
          resp |-> Handled("users.put", authHeader, g.uid, uid, body, 400,
                           "No valid fields to update")]
    ELSE LET updateData == [filtered EXCEPT !["updatedAt"] = Now]
             us1 == IF ~us[uid].exists
                    THEN DocSetMerge(us, uid, [updateData EXCEPT !["createdAt"] = Now])
                    ELSE DocSetMerge(us, uid, updateData)
         IN
      IF Truthy(updateData["email"])
      THEN LET r == IF updateData["email"].t = "string"
                    THEN UpdateUserEmail(au, uid, updateData["email"].s)
                    ELSE [code |-> "auth/invalid-email", au |-> au]
           IN IF r.code # ""
              THEN [au |-> r.au, us |-> us1,
                    resp |-> Handled("users.put", authHeader, g.uid, uid, body, 500,
                                     "Failed to update user")]
              ELSE [au |-> r.au, us |-> us1,
                    resp |-> Handled("users.put", authHeader, g.uid, uid, body, 200, "")]
      ELSE [au |-> au, us |-> us1,
            resp |-> Handled("users.put", authHeader, g.uid, uid, body, 200, "")]

\* DELETE /api/users/:uid.  `unavailable`: the oracle call of this request
\* rejects with an upstream error (network, quota) instead of answering.
UsersDeleteOutcome(au, us, authHeader, uid, unavailable) ==
  LET g == verifyIdToken(authHeader) IN
  IF ~g.next
  THEN [au |-> au, us |-> us, resp |-> Rejected("users.delete", authHeader, uid, <<>>)]
  ELSE IF ~OwnProfile(uid, g.uid)
  THEN [au |-> au, us |-> us,
        resp |-> Handled("users.delete", authHeader, g.uid, uid, <<>>, 403, "Access denied")]
  ELSE LET us1 == DocDelete(us, uid, NoDoc)
           r == IF unavailable
                THEN [code |-> "app/network-error", au |-> au]
                ELSE DeleteUser(au, uid)
       IN IF r.code # ""
          THEN [au |-> r.au, us |-> us1,
                resp |-> Handled("users.delete", authHeader, g.uid, uid, <<>>, 500,
                                 "Failed to delete user")]
          ELSE [au |-> r.au, us |-> us1,
                resp |-> Handled("users.delete", authHeader, g.uid, uid, <<>>, 200, "")]

(***************************************************************************)
(* Profile routes, src/src/routes/users.ts (userDAO revision).  GET is the *)
(* handler of part_001 with other message texts.                           *)
(***************************************************************************)
\* users.ts:83-87, the loop that filters the body into updateData
RECURSIVE FilterDefined(_, _)
FilterDefined(body, i) ==
  IF i > Len(allowedFields) THEN EmptyData
  ELSE LET field == allowedFields[i]
           value == IF field \in DOMAIN body THEN body[field] ELSE Undefined
           rest == FilterDefined(body, i + 1)
       IN  IF value # Undefined THEN [rest EXCEPT ![field] = value] ELSE rest

\* GET /api/users/:uid
UsersGetDaoOutcome(au, us, authHeader, uid) ==
  LET o == UsersGetOutcome(au, us, authHeader, uid) IN
  [o EXCEPT !.resp.op = "users.get.dao"]

\* PUT /api/users/:uid
UsersPutDaoOutcome(au, us, authHeader, uid, body) ==
  LET g == verifyIdToken(authHeader) IN
  IF ~g.next
  THEN [au |-> au, us |-> us, resp |-> Rejected("users.put.dao", authHeader, uid, body)]
  ELSE IF ~OwnProfile(uid, g.uid)
  THEN [au |-> au, us |-> us,
        resp |-> Handled("users.put.dao", authHeader, g.uid, uid, body, 403, "Access denied")]
  ELSE LET filtered == FilterDefined(body, 1) IN
    IF Keys(filtered) = {}
    THEN [au |-> au, us |-> us,
          resp |-> Handled("users.put.dao", authHeader, g.uid, uid, body, 400,
                           "No valid fields to update")]
    ELSE LET updateData == [filtered EXCEPT !["updatedAt"] = Now]
             w == DocUpdate(us, uid, updateData)
         IN
      IF w.code # ""
      THEN [au |-> au, us |-> w.coll,
            resp |-> Handled("users.put.dao", authHeader, g.uid, uid, body, 500,
                             "Failed to update user")]
      ELSE IF Truthy(updateData["email"])
      THEN LET r == IF updateData["email"].t = "string"
                    THEN UpdateUserEmail(au, uid, updateData["email"].s)
                    ELSE [code |-> "auth/invalid-email", au |-> au]
           IN IF r.code # ""
              THEN [au |-> r.au, us |-> w.coll,
                    resp |-> Handled("users.put.dao", authHeader, g.uid, uid, body, 500,
                                     "Failed to update user")]
              ELSE [au |-> r.au, us |-> w.coll,
                    resp |-> Handled("users.put.dao", authHeader, g.uid, uid, body, 200, "")]
      ELSE [au |-> au, us |-> w.coll,
            resp |-> Handled("users.put.dao", authHeader, g.uid, uid, body, 200, "")]

\* DELETE /api/users/:uid
UsersDeleteDaoOutcome(au, us, authHeader, uid, unavailable) ==
  LET o == UsersDeleteOutcome(au, us, authHeader, uid, unavailable) IN
  [o EXCEPT !.resp.op = "users.delete.dao"]

(***************************************************************************)
(* Manual registration and login, src/src/routes/auth.ts:127-339.          *)
(***************************************************************************)
\* /^\S+@\S+\.\S+$/ on a symbol sequence
emailRule(x) ==
  /\ \A i \in 1..Len(x) : ~IsWs(x[i])
  /\ \E i \in 2..Len(x) : \E j \in (i + 2)..(Len(x) - 1) :
       x[i] = "@" /\ x[j] = "."

LowerCase == {"a", "b", "c", "d", "e", "f", "g", "h", "i", "j", "k", "l", "m",
              "n", "o", "p", "q", "r", "s", "t", "u", "v", "w", "x", "y", "z"}

UpperCase == {"A", "B", "C", "D", "E", "F", "G", "H", "I", "J", "K", "L", "M",
              "N", "O", "P", "Q", "R", "S", "T", "U", "V", "W", "X", "Y", "Z"}

Digit == {"0", "1", "2", "3", "4", "5", "6", "7", "8", "9"}

Special == {"@", "$", "!", "%", "*", "?", "&"}

\* /^(?=.*[a-z])(?=.*[A-Z])(?=.*\d)(?=.*[@$!%*?&])[A-Za-z\d@$!%*?&]{8,}$/
passwordRule(x) ==
  /\ \E i \in 1..Len(x) : x[i] \in LowerCase
  /\ \E i \in 1..Len(x) : x[i] \in UpperCase
  /\ \E i \in 1..Len(x) : x[i] \in Digit
  /\ \E i \in 1..Len(x) : x[i] \in Special
  /\ \A i \in 1..Len(x) : x[i] \in LowerCase \cup UpperCase \cup Digit \cup Special
  /\ Len(x) >= 8

\* emailRule.test(email) on a request value (strings are the values sent)
TestEmailRule(v) == v.t = "string" /\ emailRule(v.s)

\* passwordRule.test(password) on a request value
TestPasswordRule(v) == v.t = "string" /\ passwordRule(v.s)

\* age ? Number(age) : null
AgeOrNull(age) == IF Truthy(age) THEN Num(age.n) ELSE Null

\* ageExists < 13 && ageExists != null
AgeTooLow(ageExists) == ageExists.t = "number" /\ ageExists.n < 13

\* userData?.providers || []
ProvidersOf(data) == Or(data["providers"], Arr(<<>>)).s

\* providers.includes(tag)
Includes(providers, tag) == \E i \in 1..Len(providers) : providers[i] = tag

\* auth.ts:190, providers.includes('manual') in the register handler
AlreadyManualNever(providers) == FALSE

AlreadyManual(providers) == Includes(providers, "manual")

\* auth.ts:200, [...providers, 'manual']
WithManualOnly(providers) == <<"manual">>

WithManual(providers) == providers \o <<"manual">>

\* auth.ts:306, providers.includes('manual') in the login handler
MayLoginAlways(providers) == TRUE

MayLogin(providers) == Includes(providers, "manual")

\* The `user` object of a register response.
RegisterUser(uid, firstName, lastName, age, email) ==
  [t |-> "object", s |-> <<>>, n |-> 0,
   data |-> [uid |-> Str(<<uid>>), firstName |-> firstName, lastName |-> lastName,
             age |-> age, email |-> email]]

\* A register or login response: target is the email of the body.
Answer(op, body, status, error) ==
  [Response(op, status, error) EXCEPT
     !.passed = TRUE, !.body = body,
     !.target = IF body["email"].t = "string" THEN body["email"].s ELSE <<>>]

\* POST /api/auth/register.  n is the oracle's uid counter; the outcome
\* carries the counter after the request.
RegisterOutcome(au, n, us, body) ==
  LET firstName == body["firstName"]
      lastName == body["lastName"]
      age == body["age"]
      email == body["email"]
      password == body["password"]
      same(status, error) ==
        [au |-> au, n |-> n, us |-> us, resp |-> Answer("register", body, status, error)]
  IN
  IF ~Truthy(email) \/ ~Truthy(password)
  THEN same(400, "Email and password are required")
  ELSE IF ~TestEmailRule(email)
  THEN same(400, "Email format is invalid")
  ELSE IF ~TestPasswordRule(password)
  THEN same(400, "Password must have at least 8 characters")
  ELSE IF AgeTooLow(AgeOrNull(age))
  THEN same(400, "Age must be at least 13 years old")
  ELSE LET existingUser == GetUserByEmail(au, email.s) IN
    IF existingUser # "" /\ us[existingUser].exists
    THEN LET userData == us[existingUser].data
             providers == ProvidersOf(userData)
         IN
      IF AlreadyManual(providers)
      THEN same(400, "Email already registered with manual login")
      ELSE LET r == UpdateUserPassword(au, existingUser, password.s)
               w == DocUpdate(us, existingUser,
                      [EmptyData EXCEPT !["providers"] = Arr(WithManual(providers)),
                                        !["updatedAt"] = Now])
           IN [au |-> r.au, n |-> n, us |-> w.coll,
               resp |-> [Answer("register", body, 200, "") EXCEPT
                           !.uid = existingUser,
                           !.user = RegisterUser(existingUser,
                                      Or(userData["firstName"], Str(<<>>)),
                                      Or(userData["lastName"], Str(<<>>)),
                                      Or(userData["age"], Null),
                                      Str(au[existingUser].email))]]
    ELSE LET c == CreateUser(au, n, email.s, password.s, FALSE) IN
      IF c.code = "auth/email-already-exists"
      THEN same(400, "Email already registered. Try logging in instead.")
      ELSE LET userData ==
                 [EmptyData EXCEPT
                    !["uid"] = Str(<<c.uid>>),
                    !["firstName"] = Or(firstName, Str(<<>>)),
                    !["lastName"] = Or(lastName, Str(<<>>)),
                    !["age"] = AgeOrNull(age),
                    !["email"] = email,
                    !["createdAt"] = Now,
                    !["updatedAt"] = Now,
                    !["providers"] = Arr(<<"manual">>)]
           IN [au |-> c.au, n |-> n + 1, us |-> DocSet(us, c.uid, userData),
               resp |-> [Answer("register", body, 201, "") EXCEPT
                           !.uid = c.uid,
                           !.user = RegisterUser(c.uid, userData["firstName"],
                                      userData["lastName"], userData["age"],
                                      userData["email"])]]

\* auth.createCustomToken(uid): the credential is identified by its subject
CreateCustomToken(uid) == uid

\* a login handler that compares the password with the account's
LoginOutcomeCheckingPassword(au, us, body) ==
  LET email == body["email"]
      password == body["password"]
  IN
  IF ~Truthy(email) \/ ~Truthy(password)
  THEN Answer("login", body, 400, "Email and password are required")
  ELSE LET userRecord == IF email.t = "string" THEN GetUserByEmail(au, email.s) ELSE "" IN
    IF userRecord = ""
    THEN Answer("login", body, 401, "Invalid email or password")
    ELSE IF ~us[userRecord].exists
    THEN [Answer("login", body, 401, "User not found") EXCEPT !.uid = userRecord]
    ELSE IF ~MayLogin(ProvidersOf(us[userRecord].data))
    THEN [Answer("login", body, 401, "Please use your original sign-in method")
            EXCEPT !.uid = userRecord]
    ELSE IF password.t # "string" \/ au[userRecord].password # password.s
    THEN [Answer("login", body, 401, "Invalid email or password") EXCEPT !.uid = userRecord]
    ELSE [Answer("login", body, 200, "") EXCEPT
            !.uid = userRecord,
            !.user = [t |-> "object", s |-> <<>>, n |-> 0, data |-> us[userRecord].data],
            !.minted = CreateCustomToken(userRecord)]

\* POST /api/auth/login (the handler behind the rate limiter)
LoginOutcome(au, us, body) ==
  LET email == body["email"]
      password == body["password"]
  IN
  IF ~Truthy(email) \/ ~Truthy(password)
  THEN Answer("login", body, 400, "Email and password are required")
  ELSE LET userRecord == IF email.t = "string" THEN GetUserByEmail(au, email.s) ELSE "" IN
    IF userRecord = ""
    THEN Answer("login", body, 401, "Invalid email or password")
    ELSE IF ~us[userRecord].exists
    THEN [Answer("login", body, 401, "User not found") EXCEPT !.uid = userRecord]
    ELSE LET userData == us[userRecord].data
             providers == ProvidersOf(userData)
         IN
      IF ~MayLogin(providers)
      THEN [Answer("login", body, 401, "Please use your original sign-in method")
              EXCEPT !.uid = userRecord]
      ELSE [Answer("login", body, 200, "") EXCEPT
              !.uid = userRecord,
              !.user = [t |-> "object", s |-> <<>>, n |-> 0, data |-> userData],
              !.minted = CreateCustomToken(userRecord)]

(***************************************************************************)
(* OAuth callbacks, src/unnamed/part_003.                                  *)
(***************************************************************************)
\* mergeUserData(existing, incoming); `existing` is EmptyData for undefined
mergeUserData(existing, incoming) ==
  [key \in DOMAIN existing |->
     LET value == incoming[key] IN
     IF value = Undefined THEN existing[key]
     ELSE IF value.t = "string"
     THEN IF Trim(value.s) # <<>> THEN Str(Trim(value.s)) ELSE existing[key]
     ELSE IF value # Null THEN value
     ELSE existing[key]]

\* Array.from(new Set(x)): the first occurrence of every element, in order
RECURSIVE Dedupe(_)
Dedupe(x) ==
  IF x = <<>> THEN <<>>
  ELSE LET init == Dedupe(SubSeq(x, 1, Len(x) - 1))
           last == x[Len(x)]
       IN  IF \E i \in 1..Len(init) : init[i] = last THEN init ELSE init \o <<last>>

\* mergeProviders without the Set
mergeProvidersAppend(existingProviders, newProvider) ==
  existingProviders \o <<newProvider>>

\* mergeProviders(existingProviders, newProvider)
mergeProviders(existingProviders, newProvider) ==
  Dedupe(existingProviders \o <<newProvider>>)

\* a + b on two strings
Concat(a, b) == Str(a.s \o b.s)

\* The object userDAO.create resolves to (a Firestore WriteResult);
\* userDAO.update resolves to undefined.
WriteResult == [t |-> "object", s |-> <<"WriteResult">>, n |-> 0]

\* An OAuth response: target is the email of the profile.
OAuthAnswer(op, userProfile, status, error) == Answer(op, userProfile, status, error)

\* part_003:102-146, shared by the three callbacks: load the stored document,
\* merge, persist, mint the credential.
Reconcile(op, au, n, us, userProfile, uid, provider, incoming) ==
  LET existingExists == us[uid].exists
      existingData == IF existingExists THEN us[uid].data ELSE EmptyData
      providers == mergeProviders(ProvidersOf(existingData), provider)
      incomingData == [incoming EXCEPT
                         !["uid"] = Str(<<uid>>),
                         !["providers"] = Arr(providers),
                         !["lastLogin"] = Now,
                         !["updatedAt"] = Now]
      mergedData == mergeUserData(existingData, incomingData)
      us1 == IF existingExists
             THEN DocUpdate(us, uid, mergedData).coll
             ELSE DocSet(us, uid, [mergedData EXCEPT !["createdAt"] = Now])
      user == IF existingExists THEN Undefined ELSE WriteResult
  IN [au |-> au, n |-> n, us |-> us1,
      resp |-> [OAuthAnswer(op, userProfile, 200, "") EXCEPT
                  !.uid = uid, !.user = user, !.minted = CreateCustomToken(uid)]]

\* POST /api/oauth/google
OAuthGoogleOutcome(au, n, us, userProfile) ==
  IF ~Truthy(userProfile["email"])
  THEN [au |-> au, n |-> n, us |-> us,
        resp |-> OAuthAnswer("oauth.google", userProfile, 400,
                             "User profile with email is required")]
  ELSE
  LET parts == SplitWs(Trim(Or(Or(userProfile["displayName"], userProfile["name"]),
                               Str(<<>>)).s))
      name == PartOrNull(parts, 0)
      secondName == PartOrNull(parts, 1)
      firstLastName == PartOrNull(parts, 2)
      secondLastName == PartOrNull(parts, 3)
      firstName ==
        IF Truthy(name)
        THEN Concat(name, IF Truthy(secondName)
                          THEN Concat(Str(<<" ">>), secondName) ELSE Str(<<>>))
        ELSE Str(<<>>)
      lastName ==
        IF Truthy(firstLastName)
        THEN Concat(firstLastName, IF Truthy(secondLastName)
                                   THEN Concat(Str(<<" ">>), secondLastName)
                                   ELSE Str(<<>>))
        ELSE Str(JoinSpace(Slice1(parts)))
      found == GetUserByEmail(au, userProfile["email"].s)
      c == IF found # ""
           THEN [code |-> "", uid |-> found, au |-> au]
           ELSE CreateUser(au, n, userProfile["email"].s, <<>>, TRUE)
      incoming == [EmptyData EXCEPT
                     !["firstName"] = firstName,
                     !["lastName"] = lastName,
                     !["email"] = userProfile["email"],
                     !["displayName"] = Or(userProfile["name"], userProfile["displayName"]),
                     !["photoURL"] = userProfile["picture"],
                     !["emailVerified"] = Bool(TRUE)]
  IN Reconcile("oauth.google", c.au, IF found # "" THEN n ELSE n + 1, us,
               userProfile, c.uid, "google", incoming)

\* POST /api/oauth/github
OAuthGithubOutcome(au, n, us, userProfile) ==
  IF ~Truthy(userProfile["email"])
  THEN [au |-> au, n |-> n, us |-> us,
        resp |-> OAuthAnswer("oauth.github", userProfile, 400,
                             "User profile with email is required")]
  ELSE
  LET found == IF Truthy(userProfile["uid"])
               THEN GetUser(au, userProfile["uid"].s[1])
               ELSE GetUserByEmail(au, userProfile["email"].s)
      c == IF found # ""
           THEN [code |-> "", uid |-> found, au |-> au]
           ELSE CreateUser(au, n, userProfile["email"].s, <<>>, FALSE)
  IN
  IF c.code # ""
  THEN [au |-> au, n |-> n, us |-> us,
        resp |-> OAuthAnswer("oauth.github", userProfile, 400, c.code)]
  ELSE
  LET existingData == IF us[c.uid].exists THEN us[c.uid].data ELSE EmptyData
      nameFromProfile == Or(Or(Or(userProfile["name"], userProfile["login"]),
                               userProfile["username"]), Str(<<>>))
      parts == SplitWs(Trim(nameFromProfile.s))
      incoming == [EmptyData EXCEPT
                     !["firstName"] =
                        Or(Or(userProfile["first_name"], Or(Str(parts[1]), Str(<<>>))),
                           Coalesce(existingData["firstName"], Str(<<>>))),
                     !["lastName"] =
                        Or(Or(userProfile["last_name"], Str(JoinSpace(Slice1(parts)))),
                           Coalesce(existingData["lastName"], Str(<<>>))),
                     !["email"] = userProfile["email"],
                     !["displayName"] = nameFromProfile,
                     !["photoURL"] =
                        Coalesce(Coalesce(Coalesce(userProfile["avatar_url"],
                                                   userProfile["pictureDataUrl"]),
                                          userProfile["picture"]), Null),
                     !["emailVerified"] = Bool(FALSE)]
  IN Reconcile("oauth.github", c.au, IF found # "" THEN n ELSE n + 1, us,
               userProfile, c.uid, "github", incoming)

\* POST /api/oauth/facebook
OAuthFacebookOutcome(au, n, us, userProfile) ==
  IF ~Truthy(userProfile["email"])
  THEN [au |-> au, n |-> n, us |-> us,
        resp |-> OAuthAnswer("oauth.facebook", userProfile, 400,
                             "User profile with email is required")]
  ELSE
  LET found == GetUserByEmail(au, userProfile["email"].s)
      c == IF found # ""
           THEN [code |-> "", uid |-> found, au |-> au]
           ELSE CreateUser(au, n, userProfile["email"].s, <<>>, FALSE)
      existingData == IF us[c.uid].exists THEN us[c.uid].data ELSE EmptyData
      nameFromProfile == Or(userProfile["name"], Str(<<>>))
      parts == SplitWs(Trim(nameFromProfile.s))
      incoming == [EmptyData EXCEPT
                     !["firstName"] =
                        Or(Or(userProfile["first_name"], Or(Str(parts[1]), Str(<<>>))),
                           existingData["firstName"]),
                     !["lastName"] =
                        Or(Or(userProfile["last_name"], Str(JoinSpace(Slice1(parts)))),
                           existingData["lastName"]),
                     !["email"] = userProfile["email"],
                     !["displayName"] = nameFromProfile,
                     !["photoURL"] =
                        Coalesce(Coalesce(userProfile["pictureDataUrl"],
                                          userProfile["picture"]), Null),
                     !["emailVerified"] = Bool(FALSE)]
  IN Reconcile("oauth.facebook", c.au, IF found # "" THEN n ELSE n + 1, us,
               userProfile, c.uid, "facebook", incoming)

(***************************************************************************)
(* OAuth callbacks, src/src/routes/oauth.ts.                               *)
(***************************************************************************)
\* userProfile.name?.split(' ')[0]
FirstWord(name) ==
  IF name.t = "string" THEN Str(SplitSpace(name.s)[1]) ELSE Undefined

\* userProfile.name?.split(' ').slice(1).join(' ')
RestWords(name) ==
  IF name.t = "string" THEN Str(JoinSpace(Slice1(SplitSpace(name.s)))) ELSE Undefined

\* oauth.ts:28-69 and 98-138, shared by the two callbacks: find or create
\* the account, set(userData, {merge: true}), mint the credential.
SetMergeLogin(op, au, n, us, userProfile, verified, userData) ==
  LET found == GetUserByEmail(au, userProfile["email"].s)
      c == IF found # ""
           THEN [code |-> "", uid |-> found, au |-> au]
           ELSE CreateUser(au, n, userProfile["email"].s, <<>>, verified)
      data == [userData EXCEPT !["uid"] = Str(<<c.uid>>),
                               !["lastLogin"] = Now,
                               !["updatedAt"] = Now]
  IN [au |-> c.au, n |-> IF found # "" THEN n ELSE n + 1,
      us |-> DocSetMerge(us, c.uid, data),
      resp |-> [OAuthAnswer(op, userProfile, 200, "") EXCEPT
                  !.uid = c.uid,
                  !.user = [t |-> "object", s |-> <<>>, n |-> 0, data |-> data],
                  !.minted = CreateCustomToken(c.uid)]]

\* POST /api/oauth/google
OAuthGoogleSetOutcome(au, n, us, userProfile) ==
  IF ~Truthy(userProfile["email"])
  THEN [au |-> au, n |-> n, us |-> us,
        resp |-> OAuthAnswer("oauth.google.set", userProfile, 400,
                             "User profile with email is required")]
  ELSE SetMergeLogin("oauth.google.set", au, n, us, userProfile, TRUE,
         [EmptyData EXCEPT
            !["firstName"] = Or(Or(userProfile["given_name"],
                                   FirstWord(userProfile["name"])), Str(<<>>)),
            !["lastName"] = Or(Or(userProfile["family_name"],
                                  RestWords(userProfile["name"])), Str(<<>>)),
            !["email"] = userProfile["email"],
            !["displayName"] = userProfile["name"],
            !["photoURL"] = userProfile["picture"],
            !["providers"] = Arr(<<"google">>),
            !["emailVerified"] = Bool(TRUE)])

\* POST /api/oauth/facebook
OAuthFacebookSetOutcome(au, n, us, userProfile) ==
  IF ~Truthy(userProfile["email"])
  THEN [au |-> au, n |-> n, us |-> us,
        resp |-> OAuthAnswer("oauth.facebook.set", userProfile, 400,
                             "User profile with email is required")]
  ELSE SetMergeLogin("oauth.facebook.set", au, n, us, userProfile, FALSE,
         [EmptyData EXCEPT
            !["firstName"] = Or(Or(userProfile["first_name"],
                                   FirstWord(userProfile["name"])), Str(<<>>)),
            !["lastName"] = Or(Or(userProfile["last_name"],
                                  RestWords(userProfile["name"])), Str(<<>>)),
            !["email"] = userProfile["email"],
            !["displayName"] = userProfile["name"],
            !["photoURL"] = userProfile["pictureDataUrl"],
            !["providers"] = Arr(<<"facebook">>),
            !["emailVerified"] = Bool(FALSE)])

(***************************************************************************)
(* Meeting routes, src/src/routes/meetings.ts:1-262.  The handlers that    *)
(* the same router registers again for GET/PUT/DELETE /:id further down    *)
(* the file never run: the first handler registered for a route answers    *)
(* every request and calls next only with an error.                        *)
(***************************************************************************)
MeetingFields == {"title", "scheduledAt", "description", "ownerUid", "createdAt",
                  "updatedAt", "status", "participants", "isPublic"}

EmptyMeeting == [f \in MeetingFields |-> Undefined]

NoMeeting == [exists |-> FALSE, data |-> EmptyMeeting]

\* data.participants || []
ParticipantsOf(data) == Or(data["participants"], Arr(<<>>)).s

\* data.ownerUid && data.ownerUid !== ownerUid, with participants let through
NotOwnerNorParticipant(data, ownerUid) ==
  /\ Truthy(data["ownerUid"])
  /\ data["ownerUid"] # Str(<<ownerUid>>)
  /\ ~Includes(ParticipantsOf(data), ownerUid)

\* meetings.ts:149 and 204, data.ownerUid && data.ownerUid !== ownerUid
NotOwner(data, ownerUid) ==
  Truthy(data["ownerUid"]) /\ data["ownerUid"] # Str(<<ownerUid>>)

\* [...(data.participants || []), currentUserId] without the spread
EnrollAlone(participants, currentUserId) == <<currentUserId>>

\* meetings.ts:108, [...(data.participants || []), currentUserId]
Enroll(participants, currentUserId) == participants \o <<currentUserId>>

\* data.participants?.includes(currentUserId) that never finds the requester
IsParticipantNever(data, currentUserId) == FALSE

\* meetings.ts:103, data.participants?.includes(currentUserId)
IsParticipant(data, currentUserId) == Includes(ParticipantsOf(data), currentUserId)

\* POST /api/meetings; k is the store's meeting counter
MeetingsCreateOutcome(ms, k, authHeader, body) ==
  LET g == verifyIdToken(authHeader) IN
  IF ~g.next
  THEN [ms |-> ms, k |-> k, resp |-> Rejected("meetings.create", authHeader, "", body)]
  ELSE LET ownerUid == g.uid
           meetingData ==
             [EmptyMeeting EXCEPT
                !["title"] = Or(body["title"], Str(<<"Untitled Meeting">>)),
                !["scheduledAt"] = Or(body["scheduledAt"], Null),
                !["description"] = Or(body["description"], Str(<<>>)),
                !["ownerUid"] = Str(<<ownerUid>>),
                !["createdAt"] = Now,
                !["updatedAt"] = Now,
                !["status"] = Str(<<"scheduled">>),
                !["participants"] = Arr(<<ownerUid>>),
                !["isPublic"] = Bool(TRUE)]
           id == MeetingNames[k]
       IN [ms |-> DocSet(ms, id, meetingData), k |-> k + 1,
           resp |-> Handled("meetings.create", authHeader, g.uid, id, body, 201, "")]

\* GET /api/meetings/:id
MeetingsGetOutcome(ms, authHeader, id) ==
  LET g == verifyIdToken(authHeader) IN
  IF ~g.next
  THEN [ms |-> ms, resp |-> Rejected("meetings.get", authHeader, id, <<>>)]
  ELSE IF ~ms[id].exists
  THEN [ms |-> ms,
        resp |-> Handled("meetings.get", authHeader, g.uid, id, <<>>, 404, "Meeting not found")]
  ELSE LET currentUserId == g.uid
           data == ms[id].data
           isParticipant == IsParticipant(data, currentUserId)
           ms1 == IF ~isParticipant
                  THEN DocUpdate(ms, id,
                         [EmptyMeeting EXCEPT !["participants"] =
                            Arr(Enroll(ParticipantsOf(data), currentUserId))]).coll
                  ELSE ms
       IN [ms |-> ms1,
           resp |-> Handled("meetings.get", authHeader, g.uid, id, <<>>, 200, "")]

\* PUT /api/meetings/:id
MeetingsPutOutcome(ms, authHeader, id, body) ==
  LET g == verifyIdToken(authHeader) IN
  IF ~g.next
  THEN [ms |-> ms, resp |-> Rejected("meetings.put", authHeader, id, body)]
  ELSE IF ~ms[id].exists
  THEN [ms |-> ms,
        resp |-> Handled("meetings.put", authHeader, g.uid, id, body, 404, "Meeting not found")]
  ELSE LET ownerUid == g.uid
           data == ms[id].data
       IN
    IF NotOwner(data, ownerUid)
    THEN [ms |-> ms,
          resp |-> Handled("meetings.put", authHeader, g.uid, id, body, 403,
                           "Not authorized to update this meeting")]
    ELSE LET updates ==
               [EmptyMeeting EXCEPT
                  !["updatedAt"] = Now,
                  !["title"] = IF body["title"] # Undefined
                               THEN Or(body["title"], Str(<<"Untitled Meeting">>))
                               ELSE Undefined,
                  !["description"] = body["description"],
                  !["scheduledAt"] = IF body["scheduledAt"] # Undefined
                                     THEN Or(body["scheduledAt"], Null)
                                     ELSE Undefined,
                  !["status"] = body["status"],
                  !["isPublic"] = body["isPublic"]]
         IN [ms |-> DocUpdate(ms, id, updates).coll,
             resp |-> Handled("meetings.put", authHeader, g.uid, id, body, 200, "")]

\* DELETE /api/meetings/:id
MeetingsDeleteOutcome(ms, authHeader, id) ==
  LET g == verifyIdToken(authHeader) IN
  IF ~g.next
  THEN [ms |-> ms, resp |-> Rejected("meetings.delete", authHeader, id, <<>>)]
  ELSE IF ~ms[id].exists
  THEN [ms |-> ms,
        resp |-> Handled("meetings.delete", authHeader, g.uid, id, <<>>, 404,
                         "Meeting not found")]
  ELSE LET ownerUid == g.uid
           data == ms[id].data
       IN
    IF NotOwner(data, ownerUid)
    THEN [ms |-> ms,
          resp |-> Handled("meetings.delete", authHeader, g.uid, id, <<>>, 403,
                           "Not authorized to delete this meeting")]
    ELSE [ms |-> DocDelete(ms, id, NoMeeting),
          resp |-> Handled("meetings.delete", authHeader, g.uid, id, <<>>, 200, "")]

\* GET /api/meetings/:id/participants
MeetingsParticipantsOutcome(ms, authHeader, id) ==
  LET g == verifyIdToken(authHeader) IN
  IF ~g.next
  THEN [ms |-> ms, resp |-> Rejected("meetings.participants", authHeader, id, <<>>)]
  ELSE IF ~ms[id].exists
  THEN [ms |-> ms,
        resp |-> Handled("meetings.participants", authHeader, g.uid, id, <<>>, 404,
                         "Meeting not found")]
  ELSE LET ownerUid == g.uid
           data == ms[id].data
           isOwner == data["ownerUid"] = Str(<<ownerUid>>)
           isParticipant == Includes(ParticipantsOf(data), ownerUid)
           isPublic == data["isPublic"] = Bool(TRUE)
       IN
    IF ~isOwner /\ ~isParticipant /\ ~isPublic
    THEN [ms |-> ms,
          resp |-> Handled("meetings.participants", authHeader, g.uid, id, <<>>, 403,
                           "Not authorized to access this meeting")]
    ELSE [ms |-> ms,
          resp |-> Handled("meetings.participants", authHeader, g.uid, id, <<>>, 200, "")]

(***************************************************************************)
(* Requests the environment sends.                                         *)
(***************************************************************************)
Header(token) == Str(Bearer \o <<token>>)

\* Authorization headers: absent, empty, other schemes, a Bearer header
\* without a token, and Bearer headers with good and refused tokens
BadHeaders ==
  {Undefined, Str(<<>>), Str(<<"B", "a", "s", "i", "c", " ", "t1">>),
   Str(<<"b", "e", "a", "r", "e", "r", " ", "t1">>),
   Str(<<"B", "e", "a", "r", "e", "r", "t1">>), Str(Bearer),
   Header("tExpired"), Header("tMalformed"), Header("tRevoked")}

GoodHeaders == {Header("t1"), Header("t2"), Header("t3")}

Headers == BadHeaders \cup GoodHeaders

E1 == <<"a", "@", "x", ".", "co">>

E2 == <<"b", "@", "x", ".", "co">>

E3 == <<"c", "@", "x", ".", "co">>

P1 == <<"A", "b", "c", "d", "e", "f", "1", "!">>

P2 == <<"Z", "y", "x", "w", "v", "u", "9", "?">>

RegisterFields == {"firstName", "lastName", "age", "email", "password"}

RegisterBody(firstName, lastName, age, email, password) ==
  [firstName |-> firstName, lastName |-> lastName, age |-> age, email |-> email,
   password |-> password]

\* registrations that pass validation
ValidRegisterBodies ==
  {RegisterBody(nm[1], nm[2], nm[3], Str(E1), Str(password)) :
     nm \in {<<Undefined, Undefined, Undefined>>,
             <<Str(<<"Ana">>), Str(<<"Paz">>), Num(20)>>},
     password \in {P1, P2}}
  \cup {RegisterBody(Undefined, Undefined, Undefined, Str(E2), Str(P1))}

\* registrations that fail validation: no password, malformed email, weak
\* password, age below 13
InvalidRegisterBodies ==
  {RegisterBody(Undefined, Undefined, Undefined, Str(E1), Undefined),
   RegisterBody(Undefined, Undefined, Undefined, Str(<<"a", "@", "x">>), Str(P1)),
   RegisterBody(Undefined, Undefined, Undefined, Str(E1), Str(<<"a", "b", "c">>)),
   RegisterBody(Undefined, Undefined, Num(10), Str(E1), Str(P1))}

\* a registration that supplies the age 0
ZeroAgeBodies == {RegisterBody(Undefined, Undefined, Num(0), Str(E1), Str(P1))}

\* passwords around the rule: a character outside the rule's alphabet, too
\* short, and one character class missing at a time
PasswordProbes ==
  {<<"A", "b", "c", "d", "e", "f", "1", "!", "#">>,
   <<"A", "b", "1", "!">>,
   <<"A", "b", "c", "d", "e", "f", "g", "!">>,
   <<"a", "b", "c", "d", "e", "f", "1", "!">>,
   <<"A", "B", "C", "D", "E", "F", "1", "!">>,
   <<"A", "b", "c", "d", "e", "f", "g", "1">>}

PasswordProbeBodies ==
  {RegisterBody(Undefined, Undefined, Undefined, Str(E1), Str(password)) :
     password \in PasswordProbes}

RegisterBodies ==
  ValidRegisterBodies \cup InvalidRegisterBodies \cup ZeroAgeBodies
    \cup PasswordProbeBodies

LoginBodies ==
  {[email |-> Str(E1), password |-> Str(P1)], [email |-> Str(E1), password |-> Str(P2)],
   [email |-> Str(E2), password |-> Str(P1)], [email |-> Str(E3), password |-> Str(P1)],
   [email |-> Str(E1), password |-> Undefined]}

ProfileFields == {"email", "uid", "displayName", "name", "given_name", "family_name",
                  "first_name", "last_name", "login", "username", "picture",
                  "pictureDataUrl", "avatar_url"}

NoProfile == [f \in ProfileFields |-> Undefined]

Pic == Str(<<"pic">>)

BobRoe == Str(<<"Bob", " ", "Roe">>)

GoogleProfiles ==
  {[NoProfile EXCEPT !["email"] = Str(E1), !["displayName"] = dn[1], !["picture"] = dn[2]] :
     dn \in {<<Undefined, Undefined>>, <<Str(<<" ">>), Undefined>>, <<BobRoe, Pic>>}}
  \cup {NoProfile}

GithubProfiles ==
  {[NoProfile EXCEPT !["email"] = Str(E1), !["uid"] = uid, !["name"] = nm[1],
                     !["avatar_url"] = nm[2]] :
     uid \in {Undefined, Str(<<"u1">>)},
     nm \in {<<Undefined, Undefined>>, <<BobRoe, Pic>>}}
  \cup {NoProfile}

FacebookProfiles ==
  {[NoProfile EXCEPT !["email"] = Str(E1), !["name"] = nm[1], !["pictureDataUrl"] = nm[2]] :
     nm \in {<<Undefined, Undefined>>, <<BobRoe, Pic>>}}
  \cup {NoProfile}

GoogleSetProfiles ==
  {[NoProfile EXCEPT !["email"] = Str(E1), !["given_name"] = nm[1], !["name"] = nm[2]] :
     nm \in {<<Undefined, Undefined>>, <<Str(<<"Bob">>), BobRoe>>}}
  \cup {NoProfile}

FacebookSetProfiles ==
  {[NoProfile EXCEPT !["email"] = Str(E1), !["name"] = nm] : nm \in {Undefined, BobRoe}}
  \cup {NoProfile}

(***************************************************************************)
(* Upstream failure.  The first Identity Oracle call of a handler,         *)
(* auth.getUserByEmail, rejects with an error that is neither a validation *)
(* nor a lookup outcome (the oracle is unreachable or fails internally).   *)
(* The handler's code up to that call runs as usual; the rejection lands   *)
(* in the handler's catch block.  No store has been written by then.       *)
(***************************************************************************)
UpstreamErrors ==
  {[code |-> "app/network-error", message |-> "getaddrinfo ENOTFOUND oracle"],
   [code |-> "auth/internal-error", message |-> ""]}

\* the request passes the checks made before the first oracle call
ReachesOracle(op, body) ==
  IF op = "register"
  THEN /\ Truthy(body["email"]) /\ Truthy(body["password"])
       /\ TestEmailRule(body["email"]) /\ TestPasswordRule(body["password"])
       /\ ~AgeTooLow(AgeOrNull(body["age"]))
  ELSE IF op = "login"
  THEN Truthy(body["email"]) /\ Truthy(body["password"])
  ELSE Truthy(body["email"])

\* error.message || fallback
MessageOr(error, fallback) == IF error.message # "" THEN error.message ELSE fallback

\* routes/auth.ts:254-268, catch of POST /register
RegisterCatch(body, error) ==
  IF error.code = "auth/email-already-exists"
  THEN Answer("register", body, 400, "Email already registered. Try logging in instead.")
  ELSE Answer("register", body, 400, MessageOr(error, "Failed to register user"))

\* routes/auth.ts:322-336, catch of POST /login
LoginCatch(body, error) ==
  IF error.code = "auth/user-not-found"
  THEN Answer("login", body, 401, "Invalid email or password")
  ELSE Answer("login", body, 401, "Invalid credentials")

\* part_003:147-153, catch of POST /google
OAuthGoogleCatch(userProfile, error) ==
  OAuthAnswer("oauth.google", userProfile, 400,
              MessageOr(error, "Google authentication failed"))

RegisterUnavailableOutcome(au, n, us, body, error) ==
  IF ~ReachesOracle("register", body) THEN RegisterOutcome(au, n, us, body)
  ELSE [au |-> au, n |-> n, us |-> us, resp |-> RegisterCatch(body, error)]

LoginUnavailableOutcome(au, us, body, error) ==
  IF ~ReachesOracle("login", body) THEN LoginOutcome(au, us, body)
  ELSE LoginCatch(body, error)

OAuthGoogleUnavailableOutcome(au, n, us, userProfile, error) ==
  IF ~ReachesOracle("oauth.google", userProfile)
  THEN OAuthGoogleOutcome(au, n, us, userProfile)
  ELSE [au |-> au, n |-> n, us |-> us, resp |-> OAuthGoogleCatch(userProfile, error)]

(***************************************************************************)
(* Login rate limiter (middleware/auth.ts:71-85), mounted before the login *)
(* handler (routes/auth.ts:279).  express-rate-limit counts the requests   *)
(* of a client address in its memory store and answers 429 once the count  *)
(* of the current window exceeds max.  The store opens and closes windows  *)
(* at fixed instants: depending on the installed release either every      *)
(* windowMs from process start for all clients ("interval"), or windowMs   *)
(* after the client's first counted request ("perKey").  No manifest pins  *)
(* the release, so the store kind is chosen when the process starts.       *)
(* One client address is modelled.  The clock advances in minutes.         *)
(***************************************************************************)
windowMs == 5 * 60 * 1000
max == 5
TickMs == 60 * 1000
WindowTicks == windowMs \div TickMs

MaxClock == 6
MaxLogins == 7
Ticks == 0..MaxClock

NodeEnvs == {"production", "development"}
StoreKinds == {"interval", "perKey"}

\* the limiter when the process starts; admitted[t] counts, for the
\* properties, the login requests of minute t that reached the handler
LimiterAtStart(env, store) ==
  [env |-> env, store |-> store, clock |-> 0, hits |-> 0,
   resetTime |-> IF store = "interval" THEN WindowTicks ELSE 0,
   admitted |-> [t \in Ticks |-> 0]]

\* skip: (req) => process.env.NODE_ENV === 'development'
Skip(l) == l.env = "development"

\* store.increment(key): a window that has ended is replaced by a fresh one
\* before the request is counted.  Counts above max + 1 are answered alike
\* and are stored as max + 1.
Increment(l) ==
  LET expired == l.clock >= l.resetTime
      resetTime == IF ~expired THEN l.resetTime
                   ELSE IF l.store = "interval"
                        THEN WindowTicks * ((l.clock \div WindowTicks) + 1)
                        ELSE l.clock + WindowTicks
      totalHits == (IF expired THEN 0 ELSE l.hits) + 1
  IN [l EXCEPT !.resetTime = resetTime,
               !.hits = IF totalHits > max THEN max + 1 ELSE totalHits]

\* rateLimiter(req, res, next): next is TRUE when the handler is called
rateLimiter(l) ==
  IF Skip(l) THEN [next |-> TRUE, l |-> l]
  ELSE LET c == Increment(l) IN [next |-> c.hits <= max, l |-> c]

TooManyRequests(body) ==
  Answer("login", body, 429, "Too many requests. Please try again later.")

(***************************************************************************)
(* GET /api/meetings/:id awaits the store twice: docRef.get() and, for a   *)
(* subject not yet listed, docRef.update({participants: [...]}).  Requests *)
(* of other subjects run between the two calls.  `reads` holds, for every  *)
(* subject, the request that has read its snapshot and not yet answered,   *)
(* and, for the properties, the reads answered 200 so far.                 *)
(***************************************************************************)
Subjects == {TokenSubject[t] : t \in DOMAIN TokenSubject}

Idle == [stage |-> "idle", header |-> Undefined, id |-> "", data |-> EmptyMeeting]

NoReads == [req |-> [u \in Subjects |-> Idle], served |-> {}]

(***************************************************************************)
(* Initial state: empty oracle, empty store, nothing served yet.  The      *)
(* limiter is skipped (NODE_ENV=development) except under SpecLimiter.     *)
(***************************************************************************)
Init ==
  /\ authUsers = [u \in AllUids |-> NoAccount]
  /\ nextUid = 1
  /\ users = [u \in AllUids |-> NoDoc]
  /\ meetings = [m \in AllMeetings |-> NoMeeting]
  /\ nextMeeting = 1
  /\ resp = NoResponse
  /\ limiter = LimiterAtStart("development", "perKey")
  /\ reads = NoReads

(***************************************************************************)
(* Account actions.  An outcome that needs a uid beyond MaxAccounts is not *)
(* taken.                                                                  *)
(***************************************************************************)
Account(o) ==
  /\ o.n <= MaxAccounts + 1
  /\ authUsers' = o.au
  /\ nextUid' = o.n
  /\ users' = o.us
  /\ resp' = o.resp
  /\ UNCHANGED <<meetings, nextMeeting, limiter, reads>>

Register(body) == Account(RegisterOutcome(authUsers, nextUid, users, body))

Login(body) ==
  /\ resp' = LoginOutcome(authUsers, users, body)
  /\ UNCHANGED <<authUsers, nextUid, users, meetings, nextMeeting, limiter, reads>>

OAuthGoogle(userProfile) ==
  Account(OAuthGoogleOutcome(authUsers, nextUid, users, userProfile))

OAuthGithub(userProfile) ==
  Account(OAuthGithubOutcome(authUsers, nextUid, users, userProfile))

OAuthFacebook(userProfile) ==
  Account(OAuthFacebookOutcome(authUsers, nextUid, users, userProfile))

OAuthGoogleSet(userProfile) ==
  Account(OAuthGoogleSetOutcome(authUsers, nextUid, users, userProfile))

OAuthFacebookSet(userProfile) ==
  Account(OAuthFacebookSetOutcome(authUsers, nextUid, users, userProfile))

\* the registration that seeds the profile the OAuth callbacks reconcile with
SeedRegisterBodies ==
  {RegisterBody(Str(<<"Ana">>), Str(<<"Paz">>), Num(20), Str(E1), Str(P1))}

\* Reconciliation by OAuth callback over manually registered accounts.
Next ==
  \/ \E body \in SeedRegisterBodies : Register(body)
  \/ \E userProfile \in GoogleProfiles : OAuthGoogle(userProfile)
  \/ \E userProfile \in GithubProfiles : OAuthGithub(userProfile)
  \/ \E userProfile \in FacebookProfiles : OAuthFacebook(userProfile)
  \/ \E userProfile \in GoogleSetProfiles : OAuthGoogleSet(userProfile)
  \/ \E userProfile \in FacebookSetProfiles : OAuthFacebookSet(userProfile)

Spec == Init /\ [][Next]_vars

\* callbacks that seed the accounts manual registration and login meet
SeedGoogleProfiles ==
  {[NoProfile EXCEPT !["email"] = Str(E1), !["displayName"] = BobRoe],
   [NoProfile EXCEPT !["email"] = Str(E2)]}

SeedGithubProfiles == {[NoProfile EXCEPT !["email"] = Str(E1), !["name"] = BobRoe]}

SeedGoogleSetProfiles == {[NoProfile EXCEPT !["email"] = Str(E1), !["name"] = BobRoe]}

\* Manual registration and login over accounts created manually or by OAuth.
NextManual ==
  \/ \E body \in RegisterBodies : Register(body)
  \/ \E body \in LoginBodies : Login(body)
  \/ \E userProfile \in SeedGoogleProfiles : OAuthGoogle(userProfile)
  \/ \E userProfile \in SeedGithubProfiles : OAuthGithub(userProfile)
  \/ \E userProfile \in SeedGoogleSetProfiles : OAuthGoogleSet(userProfile)

SpecManual == Init /\ [][NextManual]_vars

(***************************************************************************)
(* Profile route actions.                                                  *)
(***************************************************************************)
Profile(o) ==
  /\ authUsers' = o.au
  /\ users' = o.us
  /\ resp' = o.resp
  /\ UNCHANGED <<nextUid, meetings, nextMeeting, limiter, reads>>

UsersGet(authHeader, uid) == Profile(UsersGetOutcome(authUsers, users, authHeader, uid))

UsersPut(authHeader, uid, body) ==
  Profile(UsersPutOutcome(authUsers, users, authHeader, uid, body))

UsersDelete(authHeader, uid, unavailable) ==
  Profile(UsersDeleteOutcome(authUsers, users, authHeader, uid, unavailable))

UsersGetDao(authHeader, uid) ==
  Profile(UsersGetDaoOutcome(authUsers, users, authHeader, uid))

UsersPutDao(authHeader, uid, body) ==
  Profile(UsersPutDaoOutcome(authUsers, users, authHeader, uid, body))

UsersDeleteDao(authHeader, uid, unavailable) ==
  Profile(UsersDeleteDaoOutcome(authUsers, users, authHeader, uid, unavailable))

\* the :uid of a profile request
TargetUids == {"u1", "u2"}

UpdateFields == {"firstName", "lastName", "age", "email", "providers", "uid"}

NoUpdate == [f \in UpdateFields |-> Undefined]

\* PUT bodies: one field, a new email, a blank field
UpdateBodies ==
  {[NoUpdate EXCEPT !["firstName"] = Str(<<"Cy">>)],
   [NoUpdate EXCEPT !["email"] = Str(E3)],
   [NoUpdate EXCEPT !["firstName"] = Str(<<" ">>)]}

\* headers of the writing profile requests: two subjects and a rejection
WriterHeaders == {Header("t1"), Header("t2"), Undefined}

DaoHeaders == {Header("t1"), Header("tExpired")}

\* Profile requests through the gate, over manually registered accounts.
NextUsers ==
  \/ \E body \in SeedRegisterBodies : Register(body)
  \/ \E authHeader \in Headers, uid \in TargetUids : UsersGet(authHeader, uid)
  \/ \E authHeader \in WriterHeaders, uid \in TargetUids, body \in UpdateBodies :
       UsersPut(authHeader, uid, body)
  \/ \E authHeader \in WriterHeaders, uid \in TargetUids, unavailable \in BOOLEAN :
       UsersDelete(authHeader, uid, unavailable)
  \/ \E authHeader \in DaoHeaders, uid \in TargetUids : UsersGetDao(authHeader, uid)
  \/ \E authHeader \in DaoHeaders, uid \in TargetUids, body \in UpdateBodies :
       UsersPutDao(authHeader, uid, body)
  \/ \E authHeader \in DaoHeaders, uid \in TargetUids, unavailable \in BOOLEAN :
       UsersDeleteDao(authHeader, uid, unavailable)

SpecUsers == Init /\ [][NextUsers]_vars

\* the registrations that create the two accounts whose profiles are edited
SeedProfileBodies ==
  {RegisterBody(Str(<<"Ana">>), Str(<<"Paz">>), Num(20), Str(E1), Str(P1)),
   RegisterBody(Undefined, Undefined, Undefined, Str(E2), Str(P1))}

\* PUT bodies: the email of the first account, a free email, an age
ProfileUpdateBodies ==
  {[NoUpdate EXCEPT !["email"] = Str(E1)],
   [NoUpdate EXCEPT !["email"] = Str(E3)],
   [NoUpdate EXCEPT !["age"] = Num(5)]}

OwnerHeaders == {Header("t1"), Header("t2")}

\* Profile edits and deletions by the owners of two registered accounts.
NextProfiles ==
  \/ \E body \in SeedProfileBodies : Register(body)
  \/ \E authHeader \in OwnerHeaders, uid \in TargetUids, body \in ProfileUpdateBodies :
       UsersPut(authHeader, uid, body)
  \/ \E authHeader \in OwnerHeaders, uid \in TargetUids, unavailable \in BOOLEAN :
       UsersDelete(authHeader, uid, unavailable)
  \/ \E authHeader \in OwnerHeaders, uid \in TargetUids, body \in ProfileUpdateBodies :
       UsersPutDao(authHeader, uid, body)
  \/ \E authHeader \in OwnerHeaders, uid \in TargetUids, unavailable \in BOOLEAN :
       UsersDeleteDao(authHeader, uid, unavailable)

SpecProfiles == Init /\ [][NextProfiles]_vars

\* PUT bodies of one owner: allow-listed fields, fields outside the
\* allow-list, blank strings, and no field at all
OwnerUpdateBodies ==
  {[NoUpdate EXCEPT !["firstName"] = Str(<<"Cy">>)],
   [NoUpdate EXCEPT !["firstName"] = Str(<<"Cy">>), !["providers"] = Arr(<<"github">>),
                    !["uid"] = Str(<<"u2">>)],
   [NoUpdate EXCEPT !["providers"] = Arr(<<"github">>), !["uid"] = Str(<<"u2">>)],
   [NoUpdate EXCEPT !["firstName"] = Str(<<" ">>), !["lastName"] = Str(<<>>)],
   [NoUpdate EXCEPT !["age"] = Num(30)],
   [NoUpdate EXCEPT !["email"] = Str(E3)],
   NoUpdate}

\* The profile routes as one subject uses them on its own profile, before
\* and after its registration and after its deletion.
NextOwner ==
  \/ \E body \in SeedRegisterBodies : Register(body)
  \/ UsersGet(Header("t1"), "u1")
  \/ \E body \in OwnerUpdateBodies : UsersPut(Header("t1"), "u1", body)
  \/ \E unavailable \in BOOLEAN : UsersDelete(Header("t1"), "u1", unavailable)
  \/ UsersGetDao(Header("t1"), "u1")
  \/ \E body \in OwnerUpdateBodies : UsersPutDao(Header("t1"), "u1", body)
  \/ \E unavailable \in BOOLEAN : UsersDeleteDao(Header("t1"), "u1", unavailable)

SpecOwner == Init /\ [][NextOwner]_vars

(***************************************************************************)
(* Register, login and the google callback while the Identity Oracle may   *)
(* be unavailable for a request.                                           *)
(***************************************************************************)
RegisterUnavailable(body, error) ==
  Account(RegisterUnavailableOutcome(authUsers, nextUid, users, body, error))

LoginUnavailable(body, error) ==
  /\ resp' = LoginUnavailableOutcome(authUsers, users, body, error)
  /\ UNCHANGED <<authUsers, nextUid, users, meetings, nextMeeting, limiter, reads>>

OAuthGoogleUnavailable(userProfile, error) ==
  Account(OAuthGoogleUnavailableOutcome(authUsers, nextUid, users, userProfile, error))

NextUpstream ==
  \/ \E body \in SeedRegisterBodies : Register(body)
  \/ \E userProfile \in SeedGoogleProfiles : OAuthGoogle(userProfile)
  \/ \E body \in LoginBodies : Login(body)
  \/ \E body \in RegisterBodies, error \in UpstreamErrors :
       RegisterUnavailable(body, error)
  \/ \E body \in LoginBodies, error \in UpstreamErrors : LoginUnavailable(body, error)
  \/ \E userProfile \in GoogleProfiles, error \in UpstreamErrors :
       OAuthGoogleUnavailable(userProfile, error)

SpecUpstream == Init /\ [][NextUpstream]_vars

(***************************************************************************)
(* The login route as mounted: router.post('/login', rateLimiter, ...).    *)
(* Tick lets a minute pass.  LimitedLogin is one POST /api/auth/login from *)
(* the client address: the limiter first, the handler only when the        *)
(* limiter calls next.  MaxLogins caps the handler runs of one behaviour.  *)
(***************************************************************************)
RECURSIVE SumOver(_, _)
SumOver(f, S) ==
  IF S = {} THEN 0
  ELSE LET t == CHOOSE x \in S : TRUE IN f[t] + SumOver(f, S \ {t})

Tick ==
  /\ limiter.clock < MaxClock
  /\ limiter' = [limiter EXCEPT !.clock = @ + 1]
  /\ UNCHANGED <<authUsers, nextUid, users, meetings, nextMeeting, resp, reads>>

LimitedLogin(body) ==
  LET r == rateLimiter(limiter) IN
  /\ r.next => SumOver(limiter.admitted, Ticks) < MaxLogins
  /\ resp' = IF r.next THEN LoginOutcome(authUsers, users, body)
             ELSE TooManyRequests(body)
  /\ limiter' = IF r.next THEN [r.l EXCEPT !.admitted[r.l.clock] = @ + 1]
                ELSE r.l
  /\ UNCHANGED <<authUsers, nextUid, users, meetings, nextMeeting, reads>>

LimitedLoginBodies ==
  {[email |-> Str(E1), password |-> Str(P1)], [email |-> Str(E1), password |-> Str(P2)]}

InitLimiter ==
  /\ authUsers = [u \in AllUids |-> NoAccount]
  /\ nextUid = 1
  /\ users = [u \in AllUids |-> NoDoc]
  /\ meetings = [m \in AllMeetings |-> NoMeeting]
  /\ nextMeeting = 1
  /\ resp = NoResponse
  /\ \E env \in NodeEnvs, store \in StoreKinds : limiter = LimiterAtStart(env, store)
  /\ reads = NoReads

NextLimiter ==
  \/ \E body \in SeedRegisterBodies : Register(body)
  \/ Tick
  \/ \E body \in LimitedLoginBodies : LimitedLogin(body)

SpecLimiter == InitLimiter /\ [][NextLimiter]_vars

(***************************************************************************)
(* Meeting route actions.  A creation beyond MaxMeetings is not taken.     *)
(***************************************************************************)
Meeting(o) ==
  /\ meetings' = o.ms
  /\ resp' = o.resp
  /\ UNCHANGED <<authUsers, nextUid, users, nextMeeting, limiter, reads>>

MeetingsCreate(authHeader, body) ==
  LET o == MeetingsCreateOutcome(meetings, nextMeeting, authHeader, body) IN
  /\ o.k <= MaxMeetings + 1
  /\ meetings' = o.ms
  /\ nextMeeting' = o.k
  /\ resp' = o.resp
  /\ UNCHANGED <<authUsers, nextUid, users, limiter, reads>>

MeetingsGet(authHeader, id) == Meeting(MeetingsGetOutcome(meetings, authHeader, id))

MeetingsPut(authHeader, id, body) ==
  Meeting(MeetingsPutOutcome(meetings, authHeader, id, body))

MeetingsDelete(authHeader, id) == Meeting(MeetingsDeleteOutcome(meetings, authHeader, id))

MeetingsParticipants(authHeader, id) ==
  Meeting(MeetingsParticipantsOutcome(meetings, authHeader, id))

MeetingBodyFields == {"title", "scheduledAt", "description", "status", "isPublic"}

NoMeetingBody == [f \in MeetingBodyFields |-> Undefined]

CreateBodies == {[NoMeetingBody EXCEPT !["title"] = Str(<<"Standup">>)]}

\* headers of the creating requests: one owner and a rejection
CreateHeaders == {Header("t1"), Undefined}

\* PUT bodies: nothing, make private, make public, retitle to "" and restatus
MeetingUpdateBodies ==
  {NoMeetingBody,
   [NoMeetingBody EXCEPT !["isPublic"] = Bool(FALSE)],
   [NoMeetingBody EXCEPT !["isPublic"] = Bool(TRUE)],
   [NoMeetingBody EXCEPT !["title"] = Str(<<>>), !["status"] = Str(<<"live">>)]}

\* headers of the meeting requests: the three subjects and two rejections
MeetingHeaders == GoodHeaders \cup {Undefined, Header("tExpired")}

\* the :id of a meeting request
TargetMeetings == {MeetingNames[i] : i \in 1..(MaxMeetings + 1)}

NextMeetings ==
  \/ \E authHeader \in CreateHeaders, body \in CreateBodies :
       MeetingsCreate(authHeader, body)
  \/ \E authHeader \in MeetingHeaders, id \in TargetMeetings : MeetingsGet(authHeader, id)
  \/ \E authHeader \in MeetingHeaders, id \in TargetMeetings, body \in MeetingUpdateBodies :
       MeetingsPut(authHeader, id, body)
  \/ \E authHeader \in MeetingHeaders, id \in TargetMeetings : MeetingsDelete(authHeader, id)
  \/ \E authHeader \in MeetingHeaders, id \in TargetMeetings :
       MeetingsParticipants(authHeader, id)

SpecMeetings == Init /\ [][NextMeetings]_vars

(***************************************************************************)
(* GET /api/meetings/:id in its two steps (meetings.ts:87-112).            *)
(* MeetingsGetRead: the gate passes and snap = await docRef.get() finds    *)
(* the meeting.  MeetingsGetWrite: the rest of the handler, on the         *)
(* snapshot read earlier: the update for a subject the snapshot does not   *)
(* list, then the response.  An update of a document deleted meanwhile     *)
(* throws; next(error) reaches Express's default handler, which answers    *)
(* 500.                                                                    *)
(***************************************************************************)
MeetingsGetRead(authHeader, id) ==
  LET g == verifyIdToken(authHeader) IN
  /\ g.next
  /\ reads.req[g.uid].stage = "idle"
  /\ meetings[id].exists
  /\ reads' = [reads EXCEPT !.req[g.uid] =
                 [stage |-> "read", header |-> authHeader, id |-> id,
                  data |-> meetings[id].data]]
  /\ UNCHANGED <<authUsers, nextUid, users, meetings, nextMeeting, resp, limiter>>

MeetingsGetWrite(currentUserId) ==
  LET r == reads.req[currentUserId]
      data == r.data
      isParticipant == IsParticipant(data, currentUserId)
      w == IF ~isParticipant
           THEN DocUpdate(meetings, r.id,
                  [EmptyMeeting EXCEPT !["participants"] =
                     Arr(Enroll(ParticipantsOf(data), currentUserId))])
           ELSE [code |-> "", coll |-> meetings]
      status == IF w.code # "" THEN 500 ELSE 200
  IN
  /\ r.stage = "read"
  /\ meetings' = w.coll
  /\ resp' = Handled("meetings.get", r.header, currentUserId, r.id, <<>>, status,
                     w.code)
  /\ reads' = [reads EXCEPT
                 !.req[currentUserId] = Idle,
                 !.served = IF status = 200 THEN @ \cup {<<currentUserId, r.id>>} ELSE @]
  /\ UNCHANGED <<authUsers, nextUid, users, nextMeeting, limiter>>

\* Concurrent readers of the meetings one owner creates and may delete.
NextReaders ==
  \/ \E body \in CreateBodies : MeetingsCreate(Header("t1"), body)
  \/ \E authHeader \in GoodHeaders, id \in TargetMeetings : MeetingsGetRead(authHeader, id)
  \/ \E currentUserId \in Subjects : MeetingsGetWrite(currentUserId)
  \/ \E id \in TargetMeetings : MeetingsDelete(Header("t1"), id)

SpecReaders == Init /\ [][NextReaders]_vars

(***************************************************************************)
(* Properties.                                                             *)
(***************************************************************************)
UsersOps == {"users.get", "users.put", "users.delete",
             "users.get.dao", "users.put.dao", "users.delete.dao"}

MeetingsOps == {"meetings.create", "meetings.get", "meetings.put", "meetings.delete",
                "meetings.participants"}

GatedOps == UsersOps \cup MeetingsOps

OAuthOps == {"oauth.google", "oauth.github", "oauth.facebook",
             "oauth.google.set", "oauth.facebook.set"}

\* the header is present, is "Bearer " followed by a non-empty token, and
\* the oracle verifies that token
BearerOfVerifiedToken(h) ==
  /\ h.t = "string"
  /\ Len(h.s) > 7
  /\ \A i \in 1..7 : h.s[i] = Bearer[i]
  /\ OracleVerifyIdToken(SubSeq(h.s, 8, Len(h.s))).ok

\* C1: a gated request reaches its handler iff its Authorization header is
\* present, starts with "Bearer ", carries a non-empty token and the oracle
\* verifies the token; the subject attached is then the one the oracle
\* returned; every other request is answered 401 and changes nothing.
C1_GatePassesOnlyVerifiedBearer ==
  [][resp'.op \in GatedOps =>
       /\ resp'.passed <=> BearerOfVerifiedToken(resp'.header)
       /\ resp'.passed =>
            resp'.uid = OracleVerifyIdToken(SubSeq(resp'.header.s, 8,
                                                   Len(resp'.header.s))).uid
       /\ ~resp'.passed =>
            /\ resp'.status = 401
            /\ UNCHANGED <<authUsers, nextUid, users, meetings, nextMeeting>>]_vars

\* C1 witness: the gate let subject u2 through to a profile read that succeeded
C1_Witness ==
  /\ resp.op = "users.get"
  /\ resp.passed
  /\ resp.uid = "u2"
  /\ resp.status = 200

\* C2: GET, PUT and DELETE /api/users/:uid by an authenticated subject other
\* than :uid answer 403 and leave the profile store and the oracle unchanged.
C2_OtherProfileForbidden ==
  [][(resp'.op \in UsersOps /\ resp'.passed /\ resp'.target # resp'.uid) =>
       /\ resp'.status = 403
       /\ users' = users
       /\ authUsers' = authUsers]_vars

\* C2 witness: a delete of another subject's existing profile was refused
C2_Witness ==
  /\ resp.op = "users.delete"
  /\ resp.passed
  /\ resp.status = 403
  /\ resp.target # resp.uid
  /\ users[resp.target].exists
  /\ authUsers[resp.target].exists

\* empty string, whitespace-only string, null or undefined
Blank(v) == v.t \in {"undefined", "null"} \/ (v.t = "string" /\ Trim(v.s) = <<>>)

\* the attributes of an OAuth profile that feed a stored field
Feeds(field) ==
  CASE field = "firstName" ->
         {"given_name", "first_name", "name", "displayName", "login", "username"}
    [] field = "lastName" ->
         {"family_name", "last_name", "name", "displayName", "login", "username"}
    [] field = "displayName" -> {"name", "displayName", "login", "username"}
    [] OTHER -> {"picture", "pictureDataUrl", "avatar_url"}

\* C3 (as claimed): an OAuth callback resolving to a stored profile leaves a
\* non-empty field at its previous value when the incoming value for the
\* field is blank.
C3_BlankNeverClears ==
  [][(resp'.op \in OAuthOps /\ resp'.status = 200 /\ users[resp'.uid].exists) =>
       \A field \in {"firstName", "lastName", "displayName", "photoURL"} :
         (/\ ~Blank(users[resp'.uid].data[field])
          /\ \A a \in Feeds(field) : Blank(resp'.body[a]))
         => users'[resp'.uid].data[field] = users[resp'.uid].data[field]]_vars

NoDuplicates(x) == \A i, j \in 1..Len(x) : i # j => x[i] # x[j]

Count(x, e) == Cardinality({i \in 1..Len(x) : x[i] = e})

ProviderOf(op) ==
  CASE op \in {"oauth.google", "oauth.google.set"} -> "google"
    [] op = "oauth.github" -> "github"
    [] OTHER -> "facebook"

\* C4: providers never holds a tag twice, and after a successful OAuth
\* callback the profile's providers holds the callback's tag exactly once.
C4_ProvidersIdempotentUnion ==
  /\ \A u \in AllUids : NoDuplicates(ProvidersOf(users[u].data))
  /\ (resp.op \in OAuthOps /\ resp.status = 200) =>
       Count(ProvidersOf(users[resp.uid].data), ProviderOf(resp.op)) = 1

\* C4 witness: a google callback on a profile that had google before github
\* was added, so google has been reconciled at least twice
C4_Witness ==
  /\ resp.op = "oauth.google"
  /\ resp.status = 200
  /\ ProvidersOf(users[resp.uid].data) = <<"manual", "google", "github">>

\* C5 (as claimed): a tag in a stored profile's providers stays in it for as
\* long as the profile exists.
C5_ProvidersOnlyGrow ==
  [][\A u \in AllUids :
       (users[u].exists /\ users'[u].exists) =>
         \A i \in 1..Len(ProvidersOf(users[u].data)) :
           Includes(ProvidersOf(users'[u].data), ProvidersOf(users[u].data)[i])]_vars

\* the registration passes the handler's validation
ValidRegistration(body) ==
  /\ Truthy(body["email"]) /\ Truthy(body["password"])
  /\ TestEmailRule(body["email"])
  /\ TestPasswordRule(body["password"])
  /\ ~AgeTooLow(AgeOrNull(body["age"]))

\* the profile the oracle resolves the email to, "" if none is stored
ResolvedProfile(email) ==
  LET u == GetUserByEmail(authUsers, email) IN
  IF u # "" /\ users[u].exists THEN u ELSE ""

\* C6: registering an email whose resolved profile already has the manual
\* provider answers 400 (the duplicate error when the input is valid) and
\* changes neither the oracle accounts nor the profiles.
C6_DuplicateManualRejected ==
  [][(/\ resp'.op = "register"
      /\ ResolvedProfile(resp'.target) # ""
      /\ Includes(ProvidersOf(users[ResolvedProfile(resp'.target)].data), "manual")) =>
       /\ resp'.status = 400
       /\ ValidRegistration(resp'.body) =>
            resp'.error = "Email already registered with manual login"
       /\ authUsers' = authUsers
       /\ users' = users
       /\ nextUid' = nextUid]_vars

\* C6 witness: a duplicate registration with another password was refused and
\* the account kept its password
C6_Witness ==
  /\ resp.op = "register"
  /\ resp.error = "Email already registered with manual login"
  /\ resp.body["password"] = Str(P2)
  /\ authUsers[GetUserByEmail(authUsers, resp.target)].password = P1

ProviderSet(data) == {ProvidersOf(data)[i] : i \in 1..Len(ProvidersOf(data))}

\* C7: a valid registration of an email whose resolved profile lacks the
\* manual provider succeeds under the same subject id, creates no account,
\* and the providers become the previous ones plus manual.
C7_ManualAddedToOAuthAccount ==
  [][(/\ resp'.op = "register"
      /\ ValidRegistration(resp'.body)
      /\ ResolvedProfile(resp'.target) # ""
      /\ ~Includes(ProvidersOf(users[ResolvedProfile(resp'.target)].data), "manual")) =>
       LET u == ResolvedProfile(resp'.target) IN
       /\ resp'.status = 200
       /\ resp'.uid = u
       /\ users'[u].exists
       /\ ProviderSet(users'[u].data) = ProviderSet(users[u].data) \cup {"manual"}
       /\ nextUid' = nextUid
       /\ \A v \in AllUids : authUsers'[v].exists = authUsers[v].exists]_vars

\* C7 witness: a registration succeeded on an account that had two OAuth
\* providers
C7_Witness ==
  /\ resp.op = "register"
  /\ resp.status = 200
  /\ ProvidersOf(users[resp.uid].data) = <<"google", "github", "manual">>

\* C8: login mints a credential only for the profile the email resolves to
\* and only if that profile's providers hold manual; when the resolved
\* profile lacks manual the login fails and mints nothing, with 401 (use
\* your original sign-in method) once the request carries both credentials.
C8_LoginRequiresManual ==
  resp.op = "login" =>
    /\ resp.minted # "" =>
         /\ resp.status = 200
         /\ resp.minted = ResolvedProfile(resp.target)
         /\ Includes(ProvidersOf(users[resp.minted].data), "manual")
    /\ (/\ ResolvedProfile(resp.target) # ""
        /\ ~Includes(ProvidersOf(users[ResolvedProfile(resp.target)].data), "manual")) =>
         /\ resp.status \in {400, 401}
         /\ resp.minted = ""
         /\ (Truthy(resp.body["email"]) /\ Truthy(resp.body["password"])) =>
              /\ resp.status = 401
              /\ resp.error = "Please use your original sign-in method"

\* C8 witness: a login on an OAuth-only account was refused
C8_Witness ==
  /\ resp.op = "login"
  /\ resp.error = "Please use your original sign-in method"
  /\ ProvidersOf(users[resp.uid].data) = <<"google">>

\* C9 (as claimed): a read of a non-public meeting by a subject who is
\* neither its owner nor a participant answers 403 and does not change the
\* meeting.
C9_ReadRequiresAccess ==
  [][(/\ resp'.op = "meetings.get"
      /\ resp'.passed
      /\ meetings[resp'.target].exists
      /\ meetings[resp'.target].data["ownerUid"] # Str(<<resp'.uid>>)
      /\ ~Includes(ParticipantsOf(meetings[resp'.target].data), resp'.uid)
      /\ meetings[resp'.target].data["isPublic"] # Bool(TRUE)) =>
       /\ resp'.status = 403
       /\ meetings' = meetings]_vars

\* C10: PUT and DELETE /api/meetings/:id by an authenticated subject other
\* than the owner, participant or not, answer 403 and leave the meeting
\* unchanged.
C10_OnlyOwnerWrites ==
  [][(/\ resp'.op \in {"meetings.put", "meetings.delete"}
      /\ resp'.passed
      /\ meetings[resp'.target].exists
      /\ meetings[resp'.target].data["ownerUid"] # Str(<<resp'.uid>>)) =>
       /\ resp'.status = 403
       /\ meetings' = meetings]_vars

\* C10 witness: a participant who is not the owner was refused an update
C10_Witness ==
  /\ resp.op = "meetings.put"
  /\ resp.status = 403
  /\ meetings[resp.target].exists
  /\ Includes(ParticipantsOf(meetings[resp.target].data), resp.uid)

\* C11: every stored meeting's participants holds the meeting's ownerUid.
C11_OwnerIsParticipant ==
  \A m \in AllMeetings :
    meetings[m].exists =>
      /\ meetings[m].data["ownerUid"].t = "string"
      /\ Includes(ParticipantsOf(meetings[m].data), meetings[m].data["ownerUid"].s[1])

\* C11 witness: a meeting made private by its owner after another subject
\* was enrolled by a read still lists the owner first
C11_Witness ==
  /\ resp.op = "meetings.put"
  /\ resp.status = 200
  /\ meetings[resp.target].data["isPublic"] = Bool(FALSE)
  /\ Len(ParticipantsOf(meetings[resp.target].data)) >= 2
  /\ ParticipantsOf(meetings[resp.target].data)[1] = resp.uid

\* C12: a successful read of a public meeting leaves the reader in
\* participants exactly once, and a read by a subject already in
\* participants does not change participants.
C12_EnrollOnceThenNoOp ==
  [][(/\ resp'.op = "meetings.get"
      /\ resp'.status = 200
      /\ meetings[resp'.target].data["isPublic"] = Bool(TRUE)) =>
       /\ Count(ParticipantsOf(meetings'[resp'.target].data), resp'.uid) = 1
       /\ Includes(ParticipantsOf(meetings[resp'.target].data), resp'.uid) =>
            ParticipantsOf(meetings'[resp'.target].data) =
              ParticipantsOf(meetings[resp'.target].data)]_vars

\* C12 witness: a read of a public meeting by a subject enrolled by an
\* earlier read, before a third subject joined: a re-read
C12_Witness ==
  /\ resp.op = "meetings.get"
  /\ resp.status = 200
  /\ meetings[resp.target].data["isPublic"] = Bool(TRUE)
  /\ Len(ParticipantsOf(meetings[resp.target].data)) = 3
  /\ ParticipantsOf(meetings[resp.target].data)[2] = resp.uid

\* C13 (as claimed): no two stored profiles have the same email.
C13_EmailIdentifiesOneProfile ==
  \A u, v \in AllUids :
    (/\ u # v
     /\ users[u].exists /\ users[v].exists
     /\ users[u].data["email"].t = "string") =>
      users[u].data["email"] # users[v].data["email"]

\* C14 (as claimed): once a PUT /api/users/:uid that carries an email has
\* completed, with success or with failure, the stored profile and the
\* oracle account of uid have the same email.
C14_EmailChangedInBoth ==
  (/\ resp.op \in {"users.put", "users.put.dao"}
   /\ resp.passed
   /\ resp.target = resp.uid
   /\ Truthy(resp.body["email"])
   /\ users[resp.uid].exists
   /\ authUsers[resp.uid].exists) =>
    users[resp.uid].data["email"] = Str(authUsers[resp.uid].email)

\* C15 (as claimed): once a DELETE /api/users/:uid by the owner has
\* completed, with success or with failure, the profile of uid exists iff
\* the oracle account of uid exists.
C15_DeleteCascades ==
  (/\ resp.op \in {"users.delete", "users.delete.dao"}
   /\ resp.passed
   /\ resp.target = resp.uid) =>
    (users[resp.uid].exists <=> authUsers[resp.uid].exists)

\* C18 (as claimed): every stored profile's age is absent, null or an
\* integer of at least 13.
C18_StoredAgeAtLeast13 ==
  \A u \in AllUids :
    users[u].exists =>
      \/ users[u].data["age"] \in {Undefined, Null}
      \/ users[u].data["age"].t = "number" /\ users[u].data["age"].n >= 13

\* the registration breaks a validation rule: the email is not an address,
\* the password does not pass the password rule, or a supplied age is
\* below 13
BreaksRule(body) ==
  \/ body["email"].t = "string" /\ ~emailRule(body["email"].s)
  \/ body["password"].t = "string" /\ ~passwordRule(body["password"].s)
  \/ body["age"].t = "number" /\ body["age"].n < 13

\* C16 (as claimed): a registration that breaks a validation rule is
\* answered 400 and changes neither the oracle accounts nor the profiles.
C16_InvalidRegistrationRejected ==
  [][(resp'.op = "register" /\ BreaksRule(resp'.body)) =>
       /\ resp'.status = 400
       /\ UNCHANGED <<authUsers, nextUid, users>>]_vars

\* the password rule as stated: at least 8 characters with a lowercase
\* letter, an uppercase letter, a digit and a symbol of the set
StatedPasswordRule(x) ==
  /\ Len(x) >= 8
  /\ \E i \in 1..Len(x) : x[i] \in LowerCase
  /\ \E i \in 1..Len(x) : x[i] \in UpperCase
  /\ \E i \in 1..Len(x) : x[i] \in Digit
  /\ \E i \in 1..Len(x) : x[i] \in Special

\* C17 (as claimed): a registration with a well-formed email is refused for
\* its password iff the password does not meet the stated rule.
C17_PasswordAcceptedIffStatedRule ==
  (/\ resp.op = "register"
   /\ TestEmailRule(resp.body["email"])
   /\ resp.body["password"].t = "string"
   /\ resp.body["password"].s # <<>>) =>
    ((resp.error = "Password must have at least 8 characters")
       <=> ~StatedPasswordRule(resp.body["password"].s))

(***************************************************************************)
(* C19.  Unless NODE_ENV is development, at most max login requests of a   *)
(* client address reach the handler within any window of windowMs: for     *)
(* every minute t, the handler runs of minutes t .. t + WindowTicks - 1    *)
(* number at most max.                                                     *)
(***************************************************************************)
AdmittedFrom(t) ==
  SumOver(limiter.admitted, {u \in Ticks : t <= u /\ u < t + WindowTicks})

C19_AtMostMaxInAnyWindow ==
  ~Skip(limiter) => \A t \in Ticks : AdmittedFrom(t) <= max


(***************************************************************************)
(* C20.  A gated request whose Bearer token the Identity Oracle refuses    *)
(* gets one and the same response whatever the oracle's reason: status     *)
(* 401 and the body {success: false, error: 'Invalid or expired token'},   *)
(* with nothing else in the response depending on the token.               *)
(***************************************************************************)
RefusedHeaders == {Header(t) : t \in DOMAIN TokenFailure}

C20_RefusalReasonNotLeaked ==
  (resp.op \in GatedOps /\ resp.header \in RefusedHeaders) =>
    [resp EXCEPT !.header = Undefined] =
      [Response(resp.op, 401, "Invalid or expired token") EXCEPT
         !.target = resp.target, !.body = resp.body]

C20_Witness ==
  /\ resp.op = "users.get"
  /\ resp.header = Header("tRevoked")
  /\ TokenFailure["tRevoked"] # TokenFailure["tExpired"]
  /\ resp.status = 401

(***************************************************************************)
(* C21.  A login that fails to resolve the account is answered 401 with    *)
(* one message whatever the cause: the message of a failed login equals    *)
(* the message any other failing login gets in the same state.             *)
(***************************************************************************)
C21_LoginFailureUniform ==
  (resp.op = "login" /\ resp.status = 401) =>
    \A body \in LoginBodies :
      LET other == LoginOutcome(authUsers, users, body) IN
      other.status = 401 => other.error = resp.error

(***************************************************************************)
(* C22.  PUT /api/users/:uid by the owner of a stored profile changes, of  *)
(* that profile, only firstName, lastName, age, email and updatedAt: uid,  *)
(* providers, createdAt and every other field keep their values and no     *)
(* other profile changes.  Fields of the body outside the allow-list are   *)
(* ignored: the status and the resulting stores are those of the same      *)
(* request without them.                                                   *)
(***************************************************************************)
PutOps == {"users.put", "users.put.dao"}

Writable == {allowedFields[i] : i \in 1..Len(allowedFields)} \cup {"updatedAt"}

\* the body without its fields outside the allow-list
Listed(body) ==
  [f \in DOMAIN body |-> IF f \in Writable THEN body[f] ELSE Undefined]

PutOutcome(op, au, us, authHeader, uid, body) ==
  IF op = "users.put" THEN UsersPutOutcome(au, us, authHeader, uid, body)
  ELSE UsersPutDaoOutcome(au, us, authHeader, uid, body)

OwnerPut(r) == r.op \in PutOps /\ r.passed /\ r.target = r.uid

C22_PutChangesOnlyAllowListed ==
  [][(OwnerPut(resp') /\ users[resp'.uid].exists) =>
       /\ \A f \in UserFields \ Writable :
            users'[resp'.uid].data[f] = users[resp'.uid].data[f]
       /\ \A u \in AllUids \ {resp'.uid} : users'[u] = users[u]
       /\ LET o == PutOutcome(resp'.op, authUsers, users, resp'.header, resp'.target,
                              Listed(resp'.body))
          IN /\ resp'.status = o.resp.status
             /\ users' = o.us
             /\ authUsers' = o.au]_vars

C22_Witness ==
  /\ OwnerPut(resp)
  /\ resp.status = 200
  /\ resp.body["providers"] = Arr(<<"github">>)
  /\ resp.body["uid"] = Str(<<"u2">>)
  /\ users[resp.uid].data["firstName"] = Str(<<"Cy">>)
  /\ users[resp.uid].data["providers"] = Arr(<<"manual">>)
  /\ users[resp.uid].data["uid"] = Str(<<"u1">>)

(***************************************************************************)
(* C23.  A PUT /api/users/:uid by the owner whose allow-listed fields are  *)
(* all absent or empty after trimming is answered 400 and changes neither  *)
(* a stored profile nor an oracle record.                                  *)
(***************************************************************************)
AbsentOrEmpty(v) == v = Undefined \/ (v.t = "string" /\ Trim(v.s) = <<>>)

NothingToUpdate(body) ==
  \A i \in 1..Len(allowedFields) : AbsentOrEmpty(body[allowedFields[i]])

C23_EmptyUpdateRejected ==
  [][(OwnerPut(resp') /\ NothingToUpdate(resp'.body)) =>
       /\ resp'.status = 400
       /\ UNCHANGED <<users, authUsers>>]_vars

(***************************************************************************)
(* C24.  GET, PUT and DELETE on /api/users/:uid by the subject whose id is *)
(* :uid answer 404 when no profile document exists for that uid.           *)
(***************************************************************************)
C24_AbsentProfileNotFound ==
  [][(resp'.op \in UsersOps /\ resp'.passed /\ resp'.target = resp'.uid
        /\ ~users[resp'.uid].exists) => resp'.status = 404]_vars

(***************************************************************************)
(* C25.  A successful OAuth callback (google, github, facebook) answers    *)
(* 200 with the reconciled profile, as stored, in `user` and a session     *)
(* credential minted for that profile's subject id.                        *)
(***************************************************************************)
CallbackOps == {"oauth.google", "oauth.github", "oauth.facebook"}

ProfileObject(data) == [t |-> "object", s |-> <<>>, n |-> 0, data |-> data]

C25_CallbackReturnsMergedProfile ==
  (resp.op \in CallbackOps /\ resp.status = 200) =>
    /\ users[resp.uid].exists
    /\ resp.minted = resp.uid
    /\ resp.user = ProfileObject(users[resp.uid].data)

(***************************************************************************)
(* C26.  When an Identity Oracle call fails with an upstream failure       *)
(* during register, login or the google callback, the response is a 5xx.   *)
(***************************************************************************)
UpstreamFailureStep ==
  \/ \E body \in RegisterBodies, error \in UpstreamErrors :
       ReachesOracle("register", body) /\ RegisterUnavailable(body, error)
  \/ \E body \in LoginBodies, error \in UpstreamErrors :
       ReachesOracle("login", body) /\ LoginUnavailable(body, error)
  \/ \E userProfile \in GoogleProfiles, error \in UpstreamErrors :
       ReachesOracle("oauth.google", userProfile)
         /\ OAuthGoogleUnavailable(userProfile, error)

C26_UpstreamFailureIs5xx ==
  [][UpstreamFailureStep => (resp'.status >= 500 /\ resp'.status <= 599)]_vars

(***************************************************************************)
(* C27.  When an oracle account exists for the email and no profile        *)
(* document exists for its subject id, a manual registration or an OAuth   *)
(* callback succeeds, creates the profile document under that subject id   *)
(* and creates no second oracle account.                                   *)
(***************************************************************************)
ReconcilingOps == {"register"} \cup OAuthOps

\* the subject id of the orphaned oracle record the email resolves to, or ""
Orphan(au, us, email) ==
  LET uid == GetUserByEmail(au, email) IN
  IF uid # "" /\ ~us[uid].exists THEN uid ELSE ""

C27_OrphanAdopted ==
  [][(resp'.op \in ReconcilingOps /\ ReachesOracle(resp'.op, resp'.body)
        /\ Orphan(authUsers, users, resp'.target) # "") =>
       /\ resp'.status \in {200, 201}
       /\ users'[Orphan(authUsers, users, resp'.target)].exists
       /\ nextUid' = nextUid]_vars

(***************************************************************************)
(* C28.  When a manual registration resolves to an existing profile that   *)
(* lacks the manual provider, every incoming firstName, lastName or age    *)
(* that is a non-empty trimmed string or a non-null value overwrites the   *)
(* stored field, and the returned user shows the merged values.            *)
(***************************************************************************)
MergedFields == {"firstName", "lastName", "age"}

\* the value the merge rule stores for a non-blank incoming value
MergedValue(v) == IF v.t = "string" THEN Str(Trim(v.s)) ELSE v

C28_RegistrationMergesAttributes ==
  [][(resp'.op = "register" /\ resp'.status = 200) =>
       \A f \in MergedFields :
         ~Blank(resp'.body[f]) =>
           /\ users'[resp'.uid].data[f] = MergedValue(resp'.body[f])
           /\ resp'.user.data[f] = MergedValue(resp'.body[f])]_vars

(***************************************************************************)
(* C29.  Under concurrent GET /api/meetings/:id requests no enrollment is  *)
(* lost: once no read is in flight, every subject whose read of a meeting  *)
(* was answered 200 is in the participants of that meeting, as long as the *)
(* meeting exists.                                                         *)
(***************************************************************************)
Quiescent == \A u \in Subjects : reads.req[u].stage = "idle"

C29_NoEnrollmentLost ==
  Quiescent =>
    \A s \in reads.served :
      meetings[s[2]].exists => Includes(ParticipantsOf(meetings[s[2]].data), s[1])

(***************************************************************************)
(* C30.  The outcome of POST /api/auth/login (status, returned user,       *)
(* minted credential) depends on the email and the stored state only: the  *)
(* same request with any other non-empty password gets the same outcome.   *)
(***************************************************************************)
OtherPasswords == {P1, P2} \cup PasswordProbes

LoginResult(r) == <<r.status, r.error, r.user, r.minted>>

C30_LoginIgnoresPasswordValue ==
  (resp.op = "login" /\ Truthy(resp.body["password"])) =>
    \A p \in OtherPasswords :
      LoginResult(LoginOutcome(authUsers, users, [resp.body EXCEPT !["password"] = Str(p)]))
        = LoginResult(resp)

C30_Witness ==
  /\ resp.op = "login"
  /\ resp.status = 200
  /\ resp.minted = resp.uid
  /\ authUsers[resp.uid].password # resp.body["password"].s

====
